---- MODULE Spec2Model ----
(***************************************************************************)
(* Model of the OpenAPI utilities of swagger-to-docs: the validator, the   *)
(* analyzer (statistics and queries) and the two endpoint extractors.      *)
(*                                                                         *)
(* A document is the tree the loader returns.  Every query is a pure       *)
(* function of the document; the state machine holds one loaded document   *)
(* and the last call made on it, with that call's result.                  *)
(***************************************************************************)
EXTENDS Integers, Sequences, FiniteSets, TLC

VARIABLES doc, call, ret

vars == <<doc, call, ret>>

(***************************************************************************)
(* Bounds of the document universe.                                        *)
(***************************************************************************)
MaxOps == 2

(***************************************************************************)
(* Strings whose letters matter (method tokens, paths, dictionary keys)    *)
(* are sequences of one-character strings, so that lower(), upper(),       *)
(* concatenation and comparison are computed and not assumed.              *)
(***************************************************************************)
LowerLetters ==
  <<"a","b","c","d","e","f","g","h","i","j","k","l","m",
    "n","o","p","q","r","s","t","u","v","w","x","y","z">>

UpperLetters ==
  <<"A","B","C","D","E","F","G","H","I","J","K","L","M",
    "N","O","P","Q","R","S","T","U","V","W","X","Y","Z">>

\* The characters in code-point order, as Python's string comparison sees them.
CodePoints ==
  <<" ", "-", "/">> \o UpperLetters \o <<"_">> \o LowerLetters \o <<"{", "}">>

Code(c) == CHOOSE i \in 1..Len(CodePoints) : CodePoints[i] = c

LowerChar(c) ==
  IF \E i \in 1..26 : UpperLetters[i] = c
  THEN LowerLetters[CHOOSE i \in 1..26 : UpperLetters[i] = c]
  ELSE c

UpperChar(c) ==
  IF \E i \in 1..26 : LowerLetters[i] = c
  THEN UpperLetters[CHOOSE i \in 1..26 : LowerLetters[i] = c]
  ELSE c

\* str.lower()
Lower(s) == [i \in 1..Len(s) |-> LowerChar(s[i])]

\* str.upper()
Upper(s) == [i \in 1..Len(s) |-> UpperChar(s[i])]

\* s < t for Python strings
RECURSIVE StrLess(_, _)
StrLess(s, t) ==
  IF t = <<>> THEN FALSE
  ELSE IF s = <<>> THEN TRUE
  ELSE IF Head(s) # Head(t) THEN Code(Head(s)) < Code(Head(t))
  ELSE StrLess(Tail(s), Tail(t))

(***************************************************************************)
(* Path-item keys and paths of the document universe.                      *)
(***************************************************************************)
K_get == <<"g","e","t">>
K_post == <<"p","o","s","t">>
K_put == <<"p","u","t">>
K_delete == <<"d","e","l","e","t","e">>
K_patch == <<"p","a","t","c","h">>
K_head == <<"h","e","a","d">>
K_options == <<"o","p","t","i","o","n","s">>
K_trace == <<"t","r","a","c","e">>
K_parameters == <<"p","a","r","a","m","e","t","e","r","s">>
K_components == <<"c","o","m","p","o","n","e","n","t","s">>
K_schemas == <<"s","c","h","e","m","a","s">>
K_ref == <<"$","r","e","f">>

P_a == <<"/","a">>
P_b == <<"/","b">>

PathNames == {P_a, P_b}

\* The literal list every walk of utils.py and advanced_generator.py loops over.
HttpMethods == <<K_get, K_post, K_put, K_delete, K_patch, K_head, K_options>>

(***************************************************************************)
(* Results: a call either returns a value or raises.                       *)
(***************************************************************************)
Returned(v) == [raised |-> "none", value |-> v]

Raised(e) == [raised |-> e, value |-> <<>>]

(***************************************************************************)
(* The document universe.                                                  *)
(*                                                                         *)
(* A top-level value is a mapping, a sequence, a string, null or a number  *)
(* (what json.load / yaml.safe_load can return).  `has` is the set of the  *)
(* four top-level key names k for which Python's `k in spec` is true: the  *)
(* keys of a mapping, the elements of a sequence, the substrings of a      *)
(* string.  `info` is the value under "info" of a mapping; `paths` is the  *)
(* value under "paths", an ordered mapping kept as a sequence of           *)
(* [path, item] pairs, each item an ordered mapping kept as a sequence of  *)
(* [key, val] pairs.                                                       *)
(***************************************************************************)
TopKeys == {"openapi", "swagger", "info", "paths"}

TagNames == {"pets", "untagged"}

\* The tag lists an operation may declare: empty, one tag, two tags, one tag twice.
TagLists ==
  {<<>>, <<"pets">>, <<"untagged">>, <<"pets", "untagged">>, <<"untagged", "untagged">>}

NoInfo == [kind |-> "null", title |-> FALSE, version |-> FALSE]

FullInfo == [kind |-> "map", title |-> TRUE, version |-> TRUE]

InfoVals ==
  {[kind |-> "map", title |-> t, version |-> v] : t \in BOOLEAN, v \in BOOLEAN}
    \cup {[kind |-> k, title |-> FALSE, version |-> FALSE] : k \in {"null", "str", "list"}}

\* An operation object: a mapping with or without a "tags" key.
Operations ==
  {[kind |-> "map", hasTags |-> FALSE, tags |-> <<>>]}
    \cup {[kind |-> "map", hasTags |-> TRUE, tags |-> t] : t \in TagLists}

\* The value of a path-level "parameters" key: a sequence, not an operation.
ParameterList == [kind |-> "list", hasTags |-> FALSE, tags |-> <<>>]

ItemKeys == {K_get, K_post, K_trace, K_parameters}

ValuesOf(k) ==
  IF k = K_parameters THEN {ParameterList}
  ELSE IF k = K_trace THEN {[kind |-> "map", hasTags |-> FALSE, tags |-> <<>>]}
  ELSE Operations

\* The ordered mappings with n entries under distinct keys of `keys`.
RECURSIVE ItemsOver(_, _)
ItemsOver(keys, n) ==
  IF n = 0 THEN {<<>>}
  ELSE UNION {{<<[key |-> k, val |-> v]>> \o rest :
                 v \in ValuesOf(k), rest \in ItemsOver(keys \ {k}, n - 1)} :
              k \in keys}

\* The orders in which distinct paths can be declared.
PathOrders ==
  {order \in UNION {[1..n -> PathNames] : n \in 0..Cardinality(PathNames)} :
     \A i, j \in 1..Len(order) : i # j => order[i] # order[j]}

\* The paths mappings that declare the paths of `order`, in that order, with at
\* most `budget` path-item entries in all.
RECURSIVE PathMapsOver(_, _)
PathMapsOver(order, budget) ==
  IF order = <<>> THEN {<<>>}
  ELSE UNION {{<<[path |-> Head(order), item |-> it]>> \o rest :
                 it \in ItemsOver(ItemKeys, n),
                 rest \in PathMapsOver(Tail(order), budget - n)} :
              n \in 0..budget}

\* MaxOps bounds the path-item entries of the whole document.
PathMaps == UNION {PathMapsOver(order, MaxOps) : order \in PathOrders}

\* Documents that differ in their top-level structure; paths absent or empty.
HeaderDocs ==
  {[kind |-> "map", has |-> h, info |-> i, paths |-> <<>>] :
     h \in SUBSET TopKeys, i \in InfoVals}
  \cup {[kind |-> k, has |-> h, info |-> NoInfo, paths |-> <<>>] :
     k \in {"list", "str"}, h \in SUBSET TopKeys}
  \cup {[kind |-> k, has |-> {}, info |-> NoInfo, paths |-> <<>>] :
     k \in {"null", "num"}}

\* Documents with a complete header that differ in their paths.
PathDocs ==
  {[kind |-> "map", has |-> TopKeys, info |-> FullInfo, paths |-> ps] : ps \in PathMaps}

Documents ==
  {d \in HeaderDocs : d.kind = "map" /\ "info" \notin d.has => d.info = NoInfo}
    \cup PathDocs

(***************************************************************************)
(* Python's `key in spec` and `spec[key]` on a top-level value.            *)
(***************************************************************************)
\* "ok" with the answer, or the TypeError of a value that is not iterable.
Contains(d, k) ==
  IF d.kind \in {"null", "num"} THEN Raised("TypeError")
  ELSE Returned(k \in d.has)

\* spec["info"]: only a mapping can be indexed by a string.
Subscript(d) ==
  IF d.kind = "map" THEN Returned(d.info) ELSE Raised("TypeError")

(***************************************************************************)
(* OpenAPIValidator.is_valid_openapi                                       *)
(***************************************************************************)
\* Error messages, word by word.
MissingOpenapi == <<"Missing", "openapi", "or", "swagger", "field">>
MissingInfo == <<"Missing", "info", "object">>
InfoNotObject == <<"info", "must", "be", "an", "object">>
MissingTitle == <<"Missing", "info", "title">>
MissingVersion == <<"Missing", "info", "version">>
MissingPaths == <<"Missing", "paths", "object">>

\* A validator that stops at the first failing check.
IsValidOpenapiFirstOnly(d) ==
  IF d.kind \in {"null", "num"} THEN Raised("TypeError")
  ELSE
    LET Result(errors) == Returned([ok |-> Len(errors) = 0, errors |-> errors])
    IN  IF "openapi" \notin d.has /\ "swagger" \notin d.has THEN Result(<<MissingOpenapi>>)
        ELSE IF "info" \notin d.has THEN Result(<<MissingInfo>>)
        ELSE IF d.kind # "map" THEN Raised("TypeError")
        ELSE IF d.info.kind # "map" THEN Result(<<InfoNotObject>>)
        ELSE IF ~d.info.title THEN Result(<<MissingTitle>>)
        ELSE IF ~d.info.version THEN Result(<<MissingVersion>>)
        ELSE IF "paths" \notin d.has THEN Result(<<MissingPaths>>)
        ELSE Result(<<>>)

\* A validator that forgets the paths check.
IsValidOpenapiNoPaths(d) ==
  IF d.kind \in {"null", "num"} THEN Raised("TypeError")
  ELSE
    LET e1 == IF "openapi" \notin d.has /\ "swagger" \notin d.has
              THEN <<MissingOpenapi>> ELSE <<>>
        Result(errors) == Returned([ok |-> Len(errors) = 0, errors |-> errors])
    IN  IF "info" \notin d.has THEN Result(e1 \o <<MissingInfo>>)
        ELSE IF d.kind # "map" THEN Raised("TypeError")
        ELSE IF d.info.kind # "map" THEN Result(e1 \o <<InfoNotObject>>)
        ELSE Result(e1
                    \o (IF ~d.info.title THEN <<MissingTitle>> ELSE <<>>)
                    \o (IF ~d.info.version THEN <<MissingVersion>> ELSE <<>>))

IsValidOpenapi(d) ==
  IF Contains(d, "openapi").raised # "none" THEN Raised(Contains(d, "openapi").raised)
  ELSE
    LET e1 == IF ~Contains(d, "openapi").value /\ ~Contains(d, "swagger").value
              THEN <<MissingOpenapi>> ELSE <<>>
        e5 == IF ~Contains(d, "paths").value THEN <<MissingPaths>> ELSE <<>>
        Result(errors) == Returned([ok |-> Len(errors) = 0, errors |-> errors])
    IN  IF ~Contains(d, "info").value THEN Result(e1 \o <<MissingInfo>> \o e5)
        ELSE IF Subscript(d).raised # "none" THEN Raised(Subscript(d).raised)
        ELSE IF Subscript(d).value.kind # "map"
          THEN Result(e1 \o <<InfoNotObject>> \o e5)
        ELSE Result(e1
                    \o (IF ~d.info.title THEN <<MissingTitle>> ELSE <<>>)
                    \o (IF ~d.info.version THEN <<MissingVersion>> ELSE <<>>)
                    \o e5)

(***************************************************************************)
(* Ordered mappings (Python dicts) kept as sequences of [key, val].        *)
(***************************************************************************)
\* key in item
ItemHas(item, k) == \E i \in 1..Len(item) : item[i].key = k

\* item[key]
ItemGet(item, k) == item[CHOOSE i \in 1..Len(item) : item[i].key = k].val

\* dict[key] = val: an existing key keeps its position, a new key is appended.
DictPut(dict, k, v) ==
  IF ItemHas(dict, k)
  THEN [i \in 1..Len(dict) |-> IF dict[i].key = k THEN [key |-> k, val |-> v] ELSE dict[i]]
  ELSE Append(dict, [key |-> k, val |-> v])

\* counts[k] = counts.get(k, 0) + 1, the counts a function from keys to numbers.
CountInc(counts, k) ==
  IF k \in DOMAIN counts THEN [counts EXCEPT ![k] = @ + 1]
  ELSE [x \in DOMAIN counts \cup {k} |-> IF x = k THEN 1 ELSE counts[x]]

RECURSIVE CountAll(_, _)
CountAll(keys, counts) ==
  IF keys = <<>> THEN counts
  ELSE CountAll(Tail(keys), CountInc(counts, Head(keys)))

EmptyCounts == [x \in {} |-> 0]

\* operation.get("tags", default)
TagsOr(operation, default) ==
  IF operation.hasTags THEN operation.tags ELSE default

Elems(seq) == {seq[i] : i \in 1..Len(seq)}

\* Python's None.
PyNone == [kind |-> "null"]

\* d.get(k, default) on a mapping kept as a record: a field for each key present.
DictGet(d, k, default) == IF k \in DOMAIN d THEN d[k] ELSE default

(***************************************************************************)
(* The walk shared by the analyzer's queries and the advanced extractor:   *)
(*   for path, path_item in paths.items():                                 *)
(*       for method in [the seven methods]:                                *)
(*           if method in path_item: operation = path_item[method]         *)
(* as the sequence of [path, method, operation] in the order visited.      *)
(***************************************************************************)
RECURSIVE VisitMethods(_, _, _)
VisitMethods(path, item, methods) ==
  IF methods = <<>> THEN <<>>
  ELSE (IF ItemHas(item, Head(methods))
        THEN <<[path |-> path, method |-> Head(methods),
                operation |-> ItemGet(item, Head(methods))]>>
        ELSE <<>>)
       \o VisitMethods(path, item, Tail(methods))

RECURSIVE Visits(_)
Visits(paths) ==
  IF paths = <<>> THEN <<>>
  ELSE VisitMethods(Head(paths).path, Head(paths).item, HttpMethods)
       \o Visits(Tail(paths))

(***************************************************************************)
(* What the walk does on a value that is not a mapping.  A path item that  *)
(* is null makes `method in path_item` raise TypeError; one that is an     *)
(* empty list holds no method and is passed over.  A value under a method  *)
(* key that is not a mapping makes the first operation.get(...) raise      *)
(* AttributeError.  The walk stops at the first of these, in visit order.  *)
(***************************************************************************)
ItemKind(entry) == DictGet(entry, "itemKind", "map")

RECURSIVE MethodError(_, _)
MethodError(item, methods) ==
  IF methods = <<>> THEN "none"
  ELSE IF ItemHas(item, Head(methods)) /\ ItemGet(item, Head(methods)).kind # "map"
    THEN "AttributeError"
  ELSE MethodError(item, Tail(methods))

RECURSIVE WalkError(_, _)
WalkError(paths, methods) ==
  IF paths = <<>> THEN "none"
  ELSE IF ItemKind(Head(paths)) = "null" THEN "TypeError"
  ELSE IF MethodError(Head(paths).item, methods) # "none"
    THEN MethodError(Head(paths).item, methods)
  ELSE WalkError(Tail(paths), methods)

(***************************************************************************)
(* OpenAPIAnalyzer.get_statistics                                          *)
(*                                                                         *)
(* The documents of the universe declare no security schemes: their count  *)
(* is 0.                                                                   *)
(***************************************************************************)
RECURSIVE StatTags(_)
StatTags(visits) ==
  IF visits = <<>> THEN <<>>
  ELSE TagsOr(Head(visits).operation, <<"untagged">>) \o StatTags(Tail(visits))

\* Statistics that count an endpoint once per tag instead of once per operation.
GetStatisticsPerTag(d) ==
  IF d.kind # "map" THEN Raised("AttributeError")
  ELSE
    LET visits == Visits(d.paths)
    IN  IF "info" \in d.has /\ d.info.kind # "map" THEN Raised("AttributeError")
        ELSE Returned(
          [title |-> "T", version |-> "1",
           total_endpoints |-> Len(StatTags(visits)),
           methods |-> CountAll([i \in 1..Len(visits) |-> visits[i].method], EmptyCounts),
           tags |-> CountAll(StatTags(visits), EmptyCounts)])

\* A count that looks up the target of every schema that is a reference and
\* leaves out the schemas whose target is not declared.
SchemasCountResolving(d) ==
  IF "components" \notin DOMAIN d THEN 0
  ELSE IF ~ItemHas(d.components.entries, K_schemas) THEN 0
  ELSE LET es == ItemGet(d.components.entries, K_schemas).entries
           Target(e) == ItemGet(e.val.entries, K_ref).text
           Declared(ref) ==
             \E j \in 1..Len(es) :
               ref = <<"#", "/">> \o K_components \o <<"/">> \o K_schemas
                       \o <<"/">> \o es[j].key
           Broken(e) ==
             /\ e.val.kind = "map"
             /\ "entries" \in DOMAIN e.val
             /\ ItemHas(e.val.entries, K_ref)
             /\ ~Declared(Target(e))
       IN  Cardinality({i \in 1..Len(es) : ~Broken(es[i])})

\* len(components.get("schemas", {})) for components = self.spec.get("components", {});
\* the components of the universe are mappings that hold a "schemas" mapping.
SchemasCount(d) ==
  IF "components" \notin DOMAIN d THEN 0
  ELSE IF ~ItemHas(d.components.entries, K_schemas) THEN 0
  ELSE Len(ItemGet(d.components.entries, K_schemas).entries)

GetStatistics(d) ==
  IF d.kind # "map" THEN Raised("AttributeError")
  ELSE
    LET visits == Visits(d.paths)
    IN  IF WalkError(d.paths, HttpMethods) # "none"
          THEN Raised(WalkError(d.paths, HttpMethods))
        ELSE IF "info" \in d.has /\ d.info.kind # "map" THEN Raised("AttributeError")
        ELSE Returned(
          [title |-> IF "info" \in d.has /\ d.info.title THEN "T" ELSE "Unknown",
           version |-> IF "info" \in d.has /\ d.info.version THEN "1" ELSE "Unknown",
           total_endpoints |-> Len(visits),
           methods |-> CountAll([i \in 1..Len(visits) |-> visits[i].method], EmptyCounts),
           tags |-> CountAll(StatTags(visits), EmptyCounts),
           schemas |-> SchemasCount(d),
           security_schemes |-> 0])

(***************************************************************************)
(* OpenAPIAnalyzer.find_endpoints_by_tag                                   *)
(***************************************************************************)
RECURSIVE TagMatches(_, _)
TagMatches(visits, tag) ==
  IF visits = <<>> THEN <<>>
  ELSE (IF tag \in Elems(TagsOr(Head(visits).operation, <<>>))
        THEN <<[method |-> Upper(Head(visits).method), path |-> Head(visits).path,
                summary |-> DictGet(Head(visits).operation, "summary", ""),
                description |-> DictGet(Head(visits).operation, "description", "")]>>
        ELSE <<>>)
       \o TagMatches(Tail(visits), tag)

\* A tag query that appends an endpoint once per occurrence of the tag.
RECURSIVE TagOccurrences(_, _)
TagOccurrences(visits, tag) ==
  IF visits = <<>> THEN <<>>
  ELSE LET tags == TagsOr(Head(visits).operation, <<>>)
           hits == SelectSeq(tags, LAMBDA t : t = tag)
       IN  [i \in 1..Len(hits) |->
              [method |-> Upper(Head(visits).method), path |-> Head(visits).path]]
           \o TagOccurrences(Tail(visits), tag)

FindEndpointsByTagPerOccurrence(d, tag) ==
  IF d.kind # "map" THEN Raised("AttributeError")
  ELSE Returned(TagOccurrences(Visits(d.paths), tag))

FindEndpointsByTag(d, tag) ==
  IF d.kind # "map" THEN Raised("AttributeError")
  ELSE
    LET visits == Visits(d.paths)
    IN  IF WalkError(d.paths, HttpMethods) # "none"
          THEN Raised(WalkError(d.paths, HttpMethods))
        ELSE Returned(TagMatches(visits, tag))

(***************************************************************************)
(* OpenAPIAnalyzer.find_endpoints_by_method                                *)
(***************************************************************************)
RECURSIVE MethodMatches(_, _)
MethodMatches(paths, method) ==
  IF paths = <<>> THEN <<>>
  ELSE (IF ItemHas(Head(paths).item, method)
        THEN <<[path |-> Head(paths).path, method |-> Upper(method),
                operation |-> ItemGet(Head(paths).item, method)]>>
        ELSE <<>>)
       \o MethodMatches(Tail(paths), method)

\* A method query that forgets method.lower().
FindEndpointsByMethodCaseSensitive(d, method) ==
  IF d.kind # "map" THEN Raised("AttributeError")
  ELSE
    LET found == MethodMatches(d.paths, method)
    IN  IF \E i \in 1..Len(found) : found[i].operation.kind # "map"
          THEN Raised("AttributeError")
        ELSE Returned([i \in 1..Len(found) |->
               [path |-> found[i].path, method |-> found[i].method,
                summary |-> DictGet(found[i].operation, "summary", ""),
                tags |-> TagsOr(found[i].operation, <<>>)]])

FindEndpointsByMethod(d, method) ==
  IF d.kind # "map" THEN Raised("AttributeError")
  ELSE
    LET found == MethodMatches(d.paths, Lower(method))
    IN  IF WalkError(d.paths, <<Lower(method)>>) # "none"
          THEN Raised(WalkError(d.paths, <<Lower(method)>>))
        ELSE Returned([i \in 1..Len(found) |->
               [path |-> found[i].path, method |-> found[i].method,
                summary |-> DictGet(found[i].operation, "summary", ""),
                tags |-> TagsOr(found[i].operation, <<>>)]])

(***************************************************************************)
(* OpenAPIAnalyzer.list_all_endpoints                                      *)
(***************************************************************************)
\* The sort key (x["path"], x["method"]), compared as Python compares tuples.
EndpointLess(a, b) ==
  IF a.path # b.path THEN StrLess(a.path, b.path) ELSE StrLess(a.method, b.method)

\* sorted(): stable, an element goes after the elements that are not greater.
RECURSIVE SortedInsert(_, _)
SortedInsert(sorted, e) ==
  IF sorted = <<>> THEN <<e>>
  ELSE IF EndpointLess(e, Head(sorted)) THEN <<e>> \o sorted
  ELSE <<Head(sorted)>> \o SortedInsert(Tail(sorted), e)

RECURSIVE SortEndpoints(_)
SortEndpoints(eps) ==
  IF eps = <<>> THEN <<>>
  ELSE SortedInsert(SortEndpoints(SubSeq(eps, 1, Len(eps) - 1)), eps[Len(eps)])

ListAllEndpoints(d) ==
  IF d.kind # "map" THEN Raised("AttributeError")
  ELSE
    LET visits == Visits(d.paths)
    IN  IF WalkError(d.paths, HttpMethods) # "none"
          THEN Raised(WalkError(d.paths, HttpMethods))
        ELSE Returned(SortEndpoints([i \in 1..Len(visits) |->
               [method |-> Upper(visits[i].method), path |-> visits[i].path,
                summary |-> DictGet(visits[i].operation, "summary", ""),
                tags |-> TagsOr(visits[i].operation, <<>>),
                deprecated |-> DictGet(visits[i].operation, "deprecated", FALSE)]]))

(***************************************************************************)
(* AdvancedOpenAPIDocGenerator.extract_endpoints                           *)
(* and OpenAPIDocumentationGenerator.extract_endpoints: a dict keyed by    *)
(* "METHOD path".                                                          *)
(***************************************************************************)
\* f"{method.upper()} {path}"
EndpointKey(method, path) == Upper(method) \o <<" ">> \o path

RECURSIVE PutVisits(_, _, _)
PutVisits(visits, endpoints, default) ==
  IF visits = <<>> THEN endpoints
  ELSE PutVisits(Tail(visits),
         DictPut(endpoints,
                 EndpointKey(Head(visits).method, Head(visits).path),
                 [path |-> Head(visits).path,
                  method |-> Upper(Head(visits).method),
                  operation |-> Head(visits).operation,
                  tags |-> TagsOr(Head(visits).operation, default)]),
         default)

ExtractEndpoints(d) ==
  IF d.kind # "map" THEN Raised("AttributeError")
  ELSE
    LET visits == Visits(d.paths)
    IN  IF WalkError(d.paths, HttpMethods) # "none"
          THEN Raised(WalkError(d.paths, HttpMethods))
        ELSE Returned(PutVisits(visits, <<>>, <<"Other">>))

\* main.py walks path_item.items() and keeps the keys that are methods.
RECURSIVE ItemVisits(_, _)
ItemVisits(path, item) ==
  IF item = <<>> THEN <<>>
  ELSE (IF Head(item).key \in Elems(HttpMethods)
        THEN <<[path |-> path, method |-> Head(item).key, operation |-> Head(item).val]>>
        ELSE <<>>)
       \o ItemVisits(path, Tail(item))

RECURSIVE MainVisits(_)
MainVisits(paths) ==
  IF paths = <<>> THEN <<>>
  ELSE ItemVisits(Head(paths).path, Head(paths).item) \o MainVisits(Tail(paths))

\* An extraction that takes every key of a path item for a method.
RECURSIVE AnyKeyVisits(_)
AnyKeyVisits(paths) ==
  IF paths = <<>> THEN <<>>
  ELSE [i \in 1..Len(Head(paths).item) |->
          [path |-> Head(paths).path, method |-> Head(paths).item[i].key,
           operation |-> Head(paths).item[i].val]]
       \o AnyKeyVisits(Tail(paths))

ExtractEndpointsMainAnyKey(d) ==
  IF d.kind # "map" THEN Raised("AttributeError")
  ELSE Returned(PutVisits(SelectSeq(AnyKeyVisits(d.paths),
                                    LAMBDA v : v.operation.kind = "map"),
                          <<>>, <<"Drugoe">>))

\* The default bucket of main.py is the Russian word for "Other" ("Drugoe").
ExtractEndpointsMain(d) ==
  IF d.kind # "map" THEN Raised("AttributeError")
  ELSE
    LET visits == MainVisits(d.paths)
    IN  IF \E i \in 1..Len(visits) : visits[i].operation.kind # "map"
          THEN Raised("AttributeError")
        ELSE Returned(PutVisits(visits, <<>>, <<"Drugoe">>))

(***************************************************************************)
(* OpenAPIDocumentationGenerator.group_by_tags: a defaultdict(list), kept  *)
(* as a sequence of [key |-> tag, val |-> members] in insertion order.     *)
(***************************************************************************)
GroupAppend(grouped, tag, member) ==
  DictPut(grouped, tag,
          IF ItemHas(grouped, tag) THEN Append(ItemGet(grouped, tag), member)
          ELSE <<member>>)

RECURSIVE GroupTags(_, _, _)
GroupTags(grouped, tags, member) ==
  IF tags = <<>> THEN grouped
  ELSE GroupTags(GroupAppend(grouped, Head(tags), member), Tail(tags), member)

RECURSIVE GroupEndpoints(_, _)
GroupEndpoints(grouped, endpoints) ==
  IF endpoints = <<>> THEN grouped
  ELSE GroupEndpoints(
         GroupTags(grouped, Head(endpoints).val.tags,
                   [key |-> Head(endpoints).key,
                    path |-> Head(endpoints).val.path,
                    method |-> Head(endpoints).val.method,
                    operation |-> Head(endpoints).val.operation]),
         Tail(endpoints))

GroupByTags(endpoints) == GroupEndpoints(<<>>, endpoints)

(***************************************************************************)
(* The state machine.                                                      *)
(***************************************************************************)
\* The inputs of the two point queries.
TagInputs == TagNames \cup {"Other"}

MethodInputs ==
  {K_get, Upper(K_get), <<"G","e","t">>, Upper(K_trace), K_parameters, K_put}

Idle == call.op = "none"

Init ==
  /\ doc \in Documents
  /\ call = [op |-> "none", arg |-> <<>>]
  /\ ret = Returned(<<>>)

Validate ==
  /\ Idle
  /\ call' = [op |-> "is_valid_openapi", arg |-> <<>>]
  /\ ret' = IsValidOpenapi(doc)
  /\ UNCHANGED doc

Statistics ==
  /\ Idle
  /\ call' = [op |-> "get_statistics", arg |-> <<>>]
  /\ ret' = GetStatistics(doc)
  /\ UNCHANGED doc

FindByTag ==
  /\ Idle
  /\ \E tag \in TagInputs :
       /\ call' = [op |-> "find_endpoints_by_tag", arg |-> tag]
       /\ ret' = FindEndpointsByTag(doc, tag)
  /\ UNCHANGED doc

FindByMethod ==
  /\ Idle
  /\ \E method \in MethodInputs :
       /\ call' = [op |-> "find_endpoints_by_method", arg |-> method]
       /\ ret' = FindEndpointsByMethod(doc, method)
  /\ UNCHANGED doc

ListAll ==
  /\ Idle
  /\ call' = [op |-> "list_all_endpoints", arg |-> <<>>]
  /\ ret' = ListAllEndpoints(doc)
  /\ UNCHANGED doc

Extract ==
  /\ Idle
  /\ call' = [op |-> "extract_endpoints", arg |-> <<>>]
  /\ ret' = ExtractEndpoints(doc)
  /\ UNCHANGED doc

ExtractMain ==
  /\ Idle
  /\ call' = [op |-> "main.extract_endpoints", arg |-> <<>>]
  /\ ret' = ExtractEndpointsMain(doc)
  /\ UNCHANGED doc

\* main.py: grouped = self.group_by_tags(self.extract_endpoints(spec))
Group ==
  /\ Idle
  /\ call' = [op |-> "group_by_tags", arg |-> <<>>]
  /\ ret' = IF ExtractEndpointsMain(doc).raised # "none"
            THEN ExtractEndpointsMain(doc)
            ELSE Returned(GroupByTags(ExtractEndpointsMain(doc).value))
  /\ UNCHANGED doc

\* The caller takes the result; the document stays loaded for the next call.
Return ==
  /\ ~Idle
  /\ call' = [op |-> "none", arg |-> <<>>]
  /\ ret' = Returned(<<>>)
  /\ UNCHANGED doc

Next ==
  \/ Validate
  \/ Statistics
  \/ FindByTag
  \/ FindByMethod
  \/ ListAll
  \/ Extract
  \/ ExtractMain
  \/ Group
  \/ Return

Spec == Init /\ [][Next]_vars

(***************************************************************************)
(* Properties.                                                             *)
(***************************************************************************)
Called(op) == call.op = op /\ ret.raised = "none"

\* The (method, path) pairs of a list of endpoint records, as a set.
MethodPaths(eps) == {<<eps[i].method, eps[i].path>> : i \in 1..Len(eps)}

RECURSIVE SumOver(_, _)
SumOver(counts, keys) ==
  IF keys = {} THEN 0
  ELSE LET k == CHOOSE x \in keys : TRUE
       IN  counts[k] + SumOver(counts, keys \ {k})

\* sum(counts.values())
SumValues(counts) == SumOver(counts, DOMAIN counts)

\* counts.get(k, 0)
CountOf(counts, k) == IF k \in DOMAIN counts THEN counts[k] ELSE 0

\* A mapping whose info, when present, is a mapping.  Every path item of the
\* universe is a mapping and every value under a method key an operation.
WellFormed(d) == d.kind = "map" /\ ("info" \in d.has => d.info.kind = "map")

\* C1: for every valid document the sum of statistics.methods equals
\* statistics.total_endpoints, which equals the number of endpoints of
\* extract (both generators) and of list_all_endpoints.
C1_CountsAgree ==
  (call.op = "get_statistics" /\ WellFormed(doc)) =>
    /\ ret.raised = "none"
    /\ SumValues(ret.value.methods) = ret.value.total_endpoints
    /\ ExtractEndpoints(doc).raised = "none"
    /\ Len(ExtractEndpoints(doc).value) = ret.value.total_endpoints
    /\ ExtractEndpointsMain(doc).raised = "none"
    /\ Len(ExtractEndpointsMain(doc).value) = ret.value.total_endpoints
    /\ ListAllEndpoints(doc).raised = "none"
    /\ Len(ListAllEndpoints(doc).value) = ret.value.total_endpoints

\* Statistics of a document with two endpoints of one method on two paths.
C1_Witness ==
  /\ Called("get_statistics")
  /\ ret.value.total_endpoints = 2
  /\ Cardinality(DOMAIN ret.value.methods) = 1
  /\ Len(doc.paths) = 2

\* The check of the validator an error message belongs to.
CheckOf(msg) ==
  CASE msg = MissingOpenapi -> 1
    [] msg \in {MissingInfo, InfoNotObject} -> 2
    [] msg = MissingTitle -> 3
    [] msg = MissingVersion -> 4
    [] msg = MissingPaths -> 5

InfoIsMapping(d) == "info" \in d.has /\ d.info.kind = "map"

\* The five checks read one by one: a check fails when what it asks for is not there.
FailingChecks(d) ==
  (IF "openapi" \notin d.has /\ "swagger" \notin d.has THEN {1} ELSE {})
    \cup (IF ~InfoIsMapping(d) THEN {2} ELSE {})
    \cup (IF ~(InfoIsMapping(d) /\ d.info.title) THEN {3} ELSE {})
    \cup (IF ~(InfoIsMapping(d) /\ d.info.version) THEN {4} ELSE {})
    \cup (IF "paths" \notin d.has THEN {5} ELSE {})

\* The checks the validator makes: title and version only inside an info mapping.
FailingChecksMade(d) ==
  FailingChecks(d) \ (IF InfoIsMapping(d) THEN {} ELSE {3, 4})

\* The errors are one per check of `failing`, in check order.
OnePerCheckInOrder(errors, failing) ==
  /\ {CheckOf(errors[i]) : i \in 1..Len(errors)} = failing
  /\ \A i, j \in 1..Len(errors) : i < j => CheckOf(errors[i]) < CheckOf(errors[j])

\* C2 as stated: the error list of a mapping holds one error for every failing
\* check among the five, in check order.
C2_OneErrorPerFailingCheck ==
  (call.op = "is_valid_openapi" /\ doc.kind = "map") =>
    /\ ret.raised = "none"
    /\ OnePerCheckInOrder(ret.value.errors, FailingChecks(doc))

\* C2 (amended): the error list of a mapping holds one error for every failing
\* check among openapi-or-swagger, info-is-a-mapping and paths, and for title and
\* version when info is a mapping, in check order; without an info mapping the one
\* info error stands for checks 2 to 4.
C2_ErrorsAccumulateInOrder ==
  (call.op = "is_valid_openapi" /\ doc.kind = "map") =>
    /\ ret.raised = "none"
    /\ OnePerCheckInOrder(ret.value.errors, FailingChecksMade(doc))

\* A mapping without openapi/swagger, info and paths: three errors, in order.
C2_Witness ==
  /\ Called("is_valid_openapi")
  /\ doc.kind = "map"
  /\ doc.has = {}
  /\ ret.value.errors = <<MissingOpenapi, MissingInfo, MissingPaths>>

\* str(e).lower() contains the word
Mentions(errors, word) ==
  \E i \in 1..Len(errors) : \E j \in 1..Len(errors[i]) : errors[i][j] = word

\* C3: for a mapping, isValid is true exactly when the error list is empty,
\* exactly when the document has openapi or swagger, an info mapping with title
\* and version, and paths; a missing openapi/swagger, info or paths is named by
\* an error.
C3_ValidIffNoErrors ==
  (call.op = "is_valid_openapi" /\ doc.kind = "map") =>
    /\ ret.raised = "none"
    /\ ret.value.ok <=> ret.value.errors = <<>>
    /\ ret.value.ok <=>
         /\ "openapi" \in doc.has \/ "swagger" \in doc.has
         /\ InfoIsMapping(doc) /\ doc.info.title /\ doc.info.version
         /\ "paths" \in doc.has
    /\ ("openapi" \notin doc.has /\ "swagger" \notin doc.has) =>
         (Mentions(ret.value.errors, "openapi") \/ Mentions(ret.value.errors, "swagger"))
    /\ "info" \notin doc.has => Mentions(ret.value.errors, "info")
    /\ "paths" \notin doc.has => Mentions(ret.value.errors, "paths")

\* A valid document (swagger instead of openapi) is accepted with no error.
C3_Witness ==
  /\ Called("is_valid_openapi")
  /\ doc.kind = "map"
  /\ "openapi" \notin doc.has
  /\ ret.value.ok
  /\ ret.value.errors = <<>>

\* C4: validate never raises, whatever tree the loader returned.
C4_ValidateNeverRaises ==
  call.op = "is_valid_openapi" => ret.raised = "none"

\* C5: every endpoint of extract and of list_all_endpoints has a non-empty tag list.
C5_TagsNeverEmpty ==
  /\ Called("extract_endpoints") =>
       \A i \in 1..Len(ret.value) : ret.value[i].val.tags # <<>>
  /\ Called("main.extract_endpoints") =>
       \A i \in 1..Len(ret.value) : ret.value[i].val.tags # <<>>
  /\ Called("list_all_endpoints") =>
       \A i \in 1..Len(ret.value) : ret.value[i].tags # <<>>

\* The operations of the document under one of the seven methods, by position.
MethodSlots(d) ==
  {<<p, e>> \in (1..Len(d.paths)) \X (1..MaxOps + 1) :
     /\ e <= Len(d.paths[p].item)
     /\ d.paths[p].item[e].key \in Elems(HttpMethods)}

OperationAt(d, slot) == d.paths[slot[1]].item[slot[2]].val

\* The operations with no tags key.
UntaggedOperations(d) == {s \in MethodSlots(d) : ~OperationAt(d, s).hasTags}

\* The operations that list the tag.
OperationsTagged(d, tag) ==
  {s \in MethodSlots(d) :
     OperationAt(d, s).hasTags /\ tag \in Elems(OperationAt(d, s).tags)}

GroupOf(d, tag) ==
  LET grouped == GroupByTags(ExtractEndpointsMain(d).value)
  IN  IF ItemHas(grouped, tag) THEN ItemGet(grouped, tag) ELSE <<>>

\* C7: for every tag t, statistics.tags[t] equals len(find_by_tag(t)) and the
\* size of t's group in group_by_tags; a tag with no endpoint has no entry.
C7_NoDriftPerTag ==
  (Called("find_endpoints_by_tag") /\ WellFormed(doc)) =>
    /\ CountOf(GetStatistics(doc).value.tags, call.arg) = Len(ret.value)
    /\ Len(GroupOf(doc, call.arg)) = Len(ret.value)
    /\ call.arg \in DOMAIN GetStatistics(doc).value.tags => Len(ret.value) > 0

\* C8: every endpoint of find_by_tag(t) is, by (method, path), an endpoint of
\* list_all_endpoints() and is returned once, so find_by_tag(t) is no longer
\* than list_all_endpoints().
C8_TagResultWithinAll ==
  Called("find_endpoints_by_tag") =>
    /\ ListAllEndpoints(doc).raised = "none"
    /\ MethodPaths(ret.value) \subseteq MethodPaths(ListAllEndpoints(doc).value)
    /\ \A i, j \in 1..Len(ret.value) :
         (ret.value[i].method = ret.value[j].method
            /\ ret.value[i].path = ret.value[j].path) => i = j
    /\ Len(ret.value) <= Len(ListAllEndpoints(doc).value)

\* A tag query that returns one endpoint of a document with two.
C8_Witness ==
  /\ Called("find_endpoints_by_tag")
  /\ Len(ret.value) = 1
  /\ Len(ListAllEndpoints(doc).value) = 2

\* Two spellings of the same letters, whatever their case.
SameUpToCase(s, t) ==
  /\ Len(s) = Len(t)
  /\ \A i \in 1..Len(s) :
       \/ s[i] = t[i]
       \/ \E n \in 1..26 : {s[i], t[i]} = {LowerLetters[n], UpperLetters[n]}

IsUpperCase(s) == \A i \in 1..Len(s) : \A n \in 1..26 : s[i] # LowerLetters[n]

\* C9: two spellings of a method that differ only in letter case give the same
\* result of find_by_method, and every endpoint returned carries the method in
\* upper case.
C9_MethodCaseInsensitive ==
  call.op = "find_endpoints_by_method" =>
    /\ \A other \in MethodInputs :
         SameUpToCase(call.arg, other) => FindEndpointsByMethod(doc, other) = ret
    /\ ret.raised = "none" =>
         \A i \in 1..Len(ret.value) : IsUpperCase(ret.value[i].method)

\* "Get" finds the get operations of two paths.
C9_Witness ==
  /\ Called("find_endpoints_by_method")
  /\ call.arg = <<"G","e","t">>
  /\ Len(ret.value) = 2

\* C10: find_by_method(m) never fails, every endpoint it returns is, by
\* (method, path), an endpoint of list_all_endpoints(), and it returns as many
\* as statistics.methods counts for m; a path-item key that is not one of the
\* seven methods gives no result.
C10_MethodResultWithinAll ==
  (call.op = "find_endpoints_by_method" /\ WellFormed(doc)) =>
    /\ ret.raised = "none"
    /\ MethodPaths(ret.value) \subseteq MethodPaths(ListAllEndpoints(doc).value)
    /\ Len(ret.value) = CountOf(GetStatistics(doc).value.methods, Lower(call.arg))
    /\ Lower(call.arg) \notin Elems(HttpMethods) => ret.value = <<>>

(***************************************************************************)
(* OpenAPIAnalyzer.get_request_body_schema                                 *)
(*                                                                         *)
(* A mapping whose keys are fixed names is a record that has a field for   *)
(* each key present: `k in d` is k \in DOMAIN d.  The content of a request *)
(* body is an ordered mapping, a sequence of [key |-> type, val |-> media]. *)
(***************************************************************************)
\* The most content types a request body declares.
MaxContent == 2

ContentTypes == {"application/json", "application/xml", "text/plain"}

Schemas == {[kind |-> "map", title |-> t] : t \in {"S1", "S2"}}

\* A media type object, with or without a "schema" key.
MediaTypes == {[kind |-> "map"]} \cup {[kind |-> "map", schema |-> s] : s \in Schemas}

RECURSIVE ContentsOver(_, _)
ContentsOver(types, n) ==
  IF n = 0 THEN {<<>>}
  ELSE UNION {{<<[key |-> t, val |-> m]>> \o rest :
                 m \in MediaTypes, rest \in ContentsOver(types \ {t}, n - 1)} :
              t \in types}

Contents == UNION {ContentsOver(ContentTypes, n) : n \in 0..MaxContent}

\* The value under "requestBody": null, or a mapping with or without "content".
RequestBodies ==
  {PyNone, [kind |-> "map"]} \cup {[kind |-> "map", content |-> c] : c \in Contents}

BodyOperations ==
  {[kind |-> "map", hasTags |-> FALSE, tags |-> <<>>]}
    \cup {[kind |-> "map", hasTags |-> FALSE, tags |-> <<>>, requestBody |-> rb] :
            rb \in RequestBodies}

\* The path item of /a: empty, a POST operation, or path-level parameters
\* followed by a POST operation.
BodyItems ==
  {<<>>}
    \cup {<<[key |-> K_post, val |-> o]>> : o \in BodyOperations}
    \cup {<<[key |-> K_parameters, val |-> ParameterList], [key |-> K_post, val |-> o]>> :
            o \in BodyOperations}

BodyDocs ==
  {[kind |-> "map", has |-> TopKeys, info |-> FullInfo,
    paths |-> <<[path |-> P_a, item |-> it]>>] : it \in BodyItems}
    \cup {[kind |-> "map", has |-> {"openapi", "info"}, info |-> FullInfo, paths |-> <<>>]}
    \cup {[kind |-> k, has |-> {}, info |-> NoInfo, paths |-> <<>>] :
            k \in {"null", "num", "list", "str"}}

\* path in paths
PathHas(paths, path) == \E i \in 1..Len(paths) : paths[i].path = path

\* paths[path]
PathGet(paths, path) == paths[CHOOSE i \in 1..Len(paths) : paths[i].path = path].item

\* for content_type, content_data in content.items():
\*     if "schema" in content_data: return content_data["schema"]
\* return None
RECURSIVE FirstSchema(_)
FirstSchema(content) ==
  IF content = <<>> THEN PyNone
  ELSE IF "schema" \in DOMAIN Head(content).val THEN Head(content).val.schema
  ELSE FirstSchema(Tail(content))

\* A loop that keeps the schema of the last content type that carries one.
RECURSIVE LastSchema(_)
LastSchema(content) ==
  IF content = <<>> THEN PyNone
  ELSE IF "schema" \in DOMAIN content[Len(content)].val THEN content[Len(content)].val.schema
  ELSE LastSchema(SubSeq(content, 1, Len(content) - 1))

\* The walk down to the operation: "found" with the operation, or the caught
\* KeyError / TypeError of self.spec["paths"][path][method].
OperationOf(d, path, method) ==
  IF d.kind # "map" THEN [found |-> FALSE, error |-> "TypeError"]
  ELSE IF "paths" \notin d.has \/ ~PathHas(d.paths, path)
    THEN [found |-> FALSE, error |-> "KeyError"]
  ELSE IF ~ItemHas(PathGet(d.paths, path), method)
    THEN [found |-> FALSE, error |-> "KeyError"]
  ELSE [found |-> TRUE, operation |-> ItemGet(PathGet(d.paths, path), method)]

GetRequestBodySchemaLast(d, path, method) ==
  LET at == OperationOf(d, path, Lower(method))
  IN  IF ~at.found THEN Returned(PyNone)
      ELSE IF at.operation.kind # "map" THEN Raised("AttributeError")
      ELSE LET request_body == DictGet(at.operation, "requestBody", [kind |-> "map"])
           IN  IF request_body.kind # "map" THEN Raised("AttributeError")
               ELSE Returned(LastSchema(DictGet(request_body, "content", <<>>)))

\* Only KeyError and TypeError are caught: .get on a value that is not a
\* mapping raises AttributeError out of the method.
GetRequestBodySchema(d, path, method) ==
  LET at == OperationOf(d, path, Lower(method))
  IN  IF ~at.found THEN Returned(PyNone)
      ELSE IF at.operation.kind # "map" THEN Raised("AttributeError")
      ELSE LET request_body == DictGet(at.operation, "requestBody", [kind |-> "map"])
           IN  IF request_body.kind # "map" THEN Raised("AttributeError")
               ELSE Returned(FirstSchema(DictGet(request_body, "content", <<>>)))

PathInputs == {P_a, P_b}

BodyMethodInputs == {K_post, Upper(K_post), K_get, K_parameters}

BodyInit ==
  /\ doc \in BodyDocs
  /\ call = [op |-> "none", arg |-> <<>>]
  /\ ret = Returned(<<>>)

RequestBodySchema ==
  /\ Idle
  /\ \E path \in PathInputs, method \in BodyMethodInputs :
       /\ call' = [op |-> "get_request_body_schema", arg |-> [path |-> path, method |-> method]]
       /\ ret' = GetRequestBodySchema(doc, path, method)
  /\ UNCHANGED doc

BodyNext ==
  \/ RequestBodySchema
  \/ Return

BodySpec == BodyInit /\ [][BodyNext]_vars

\* The content mapping of the request body the call addresses, when the
\* operation exists and declares a request body with content.
AddressedOperation == OperationOf(doc, call.arg.path, Lower(call.arg.method))

DeclaresContent ==
  /\ call.op = "get_request_body_schema"
  /\ AddressedOperation.found
  /\ AddressedOperation.operation.kind = "map"
  /\ "requestBody" \in DOMAIN AddressedOperation.operation
  /\ "content" \in DOMAIN AddressedOperation.operation.requestBody

AddressedContent == AddressedOperation.operation.requestBody.content

Carrying(content) == {i \in 1..Len(content) : "schema" \in DOMAIN content[i].val}

\* C11: when the request body declares several content types, the schema
\* returned is the schema of the earliest content type, in document order, that
\* carries a schema.
C11_FirstDeclaredSchemaWins ==
  (DeclaresContent /\ Carrying(AddressedContent) # {}) =>
    LET first == CHOOSE i \in Carrying(AddressedContent) :
                   \A j \in Carrying(AddressedContent) : i <= j
    IN  ret = Returned(AddressedContent[first].val.schema)

\* Two content types carry different schemas and the first one's is returned.
C11_Witness ==
  /\ DeclaresContent
  /\ Carrying(AddressedContent) = {1, 2}
  /\ AddressedContent[1].val.schema # AddressedContent[2].val.schema
  /\ ret = Returned(AddressedContent[1].val.schema)

\* C12: get_request_body_schema returns None and never raises, for every
\* document and every (path, method) input.
C12_RequestBodySchemaNeverRaises ==
  call.op = "get_request_body_schema" => ret.raised = "none"

(***************************************************************************)
(* OpenAPIAnalyzer.get_response_schemas                                    *)
(*                                                                         *)
(* The "responses" of an operation are an ordered mapping, a sequence of   *)
(* [key |-> status, val |-> response]; the result is a dict from status to *)
(* schema, kept as a sequence of [key, val] in insertion order.            *)
(***************************************************************************)
\* A loop that leaves the status alone once it has a schema: the first
\* content type that carries one wins.
PutSchemasFirst(schemas, status, content) ==
  IF \E i \in 1..Len(content) : "schema" \in DOMAIN content[i].val
    THEN DictPut(schemas, status,
                 content[CHOOSE i \in 1..Len(content) :
                           /\ "schema" \in DOMAIN content[i].val
                           /\ \A j \in 1..(i - 1) : "schema" \notin DOMAIN content[j].val
                        ].val.schema)
  ELSE schemas

\* for content_type, content_data in content.items():
\*     if "schema" in content_data: schemas[status] = content_data["schema"]
RECURSIVE PutSchemas(_, _, _)
PutSchemas(schemas, status, content) ==
  IF content = <<>> THEN schemas
  ELSE PutSchemas(IF "schema" \in DOMAIN Head(content).val
                  THEN DictPut(schemas, status, Head(content).val.schema)
                  ELSE schemas,
                  status, Tail(content))

RECURSIVE ResponseLoop(_, _)
ResponseLoop(schemas, responses) ==
  IF responses = <<>> THEN Returned(schemas)
  ELSE IF Head(responses).val.kind # "map" THEN Raised("AttributeError")
  ELSE ResponseLoop(PutSchemas(schemas, Head(responses).key,
                               DictGet(Head(responses).val, "content", <<>>)),
                    Tail(responses))

GetResponseSchemas(d, path, method) ==
  LET at == OperationOf(d, path, Lower(method))
  IN  IF ~at.found THEN Returned(<<>>)
      ELSE IF at.operation.kind # "map" THEN Raised("AttributeError")
      ELSE ResponseLoop(<<>>, DictGet(at.operation, "responses", <<>>))

ResponseSchemas ==
  /\ Idle
  /\ \E path \in PathInputs, method \in BodyMethodInputs :
       /\ call' = [op |-> "get_response_schemas", arg |-> [path |-> path, method |-> method]]
       /\ ret' = GetResponseSchemas(doc, path, method)
  /\ UNCHANGED doc

(***************************************************************************)
(* OpenAPIAnalyzer.resolve_schema_reference                                *)
(*                                                                         *)
(* The resolver sees the document as a tree of nodes: a mapping            *)
(* [kind |-> "map", entries |-> sequence of [key, val]], a sequence        *)
(* [kind |-> "list", elems |-> sequence of nodes], a string                *)
(* [kind |-> "str", text |-> ...] or None.  Keys and pointers are strings  *)
(* whose letters matter.                                                   *)
(***************************************************************************)
\* The most schemas a document declares under components.schemas.
MaxSchemas == 2

K_openapi == <<"o","p","e","n","a","p","i">>
K_swagger == <<"s","w","a","g","g","e","r">>
K_info == <<"i","n","f","o">>
K_title == <<"t","i","t","l","e">>
K_version == <<"v","e","r","s","i","o","n">>
K_paths == <<"p","a","t","h","s">>
K_tags == <<"t","a","g","s">>
K_type == <<"t","y","p","e">>

SchemaNames == {<<"A">>, <<"B">>, <<"L">>}

\* "#/components/schemas/" + name
PointerTo(name) == <<"#", "/">> \o K_components \o <<"/">> \o K_schemas \o <<"/">> \o name

StrNode(text) == [kind |-> "str", text |-> text]

\* {"$ref": pointer}
RefNode(pointer) ==
  [kind |-> "map", entries |-> <<[key |-> K_ref, val |-> StrNode(pointer)]>>]

\* {"type": "object"}
ObjectSchema ==
  [kind |-> "map", entries |-> <<[key |-> K_type, val |-> StrNode("object")]>>]

\* What a name under components.schemas may hold: a reference to schema A or
\* B, an inline schema, a sequence of two values, or null.
SchemaNodes ==
  {RefNode(PointerTo(<<"A">>)), RefNode(PointerTo(<<"B">>)), ObjectSchema,
   [kind |-> "list", elems |-> <<ObjectSchema, PyNone>>], PyNone}

RECURSIVE SchemaEntriesOver(_, _)
SchemaEntriesOver(names, n) ==
  IF n = 0 THEN {<<>>}
  ELSE UNION {{<<[key |-> k, val |-> v]>> \o rest :
                 v \in SchemaNodes, rest \in SchemaEntriesOver(names \ {k}, n - 1)} :
              k \in names}

\* {"schemas": {...}}
ComponentsNodes ==
  {[kind |-> "map",
    entries |-> <<[key |-> K_schemas, val |-> [kind |-> "map", entries |-> es]]>>] :
     es \in UNION {SchemaEntriesOver(SchemaNames, n) : n \in 0..MaxSchemas}}

\* Documents with components: {"openapi": ..., "paths": ..., "components": ...},
\* the paths empty or one tagged GET on /a; and values that are not mappings.
ResolveDocs ==
  {[kind |-> "map", has |-> {"openapi", "paths"}, info |-> NoInfo, paths |-> ps,
    components |-> c] :
     ps \in {<<>>, <<[path |-> P_a,
                      item |-> <<[key |-> K_get,
                                  val |-> [kind |-> "map", hasTags |-> TRUE,
                                           tags |-> <<"pets">>]]>>]>>},
     c \in ComponentsNodes}
    \cup {[kind |-> k, has |-> {}, info |-> NoInfo, paths |-> <<>>] :
            k \in {"null", "num", "list", "str"}}

\* The node of an info value and of a path-item value.  The operations of
\* these documents declare tags at most; what a value that is not a mapping
\* holds does not matter to a subscript by a string.
InfoNode(info) ==
  IF info.kind # "map" THEN [kind |-> info.kind]
  ELSE [kind |-> "map",
        entries |-> (IF info.title THEN <<[key |-> K_title, val |-> StrNode("T")]>> ELSE <<>>)
                    \o (IF info.version THEN <<[key |-> K_version, val |-> StrNode("1")]>>
                        ELSE <<>>)]

OperationNode(operation) ==
  IF operation.kind # "map" THEN [kind |-> operation.kind]
  ELSE [kind |-> "map",
        entries |-> IF operation.hasTags
                    THEN <<[key |-> K_tags,
                            val |-> [kind |-> "list",
                                     elems |-> [i \in 1..Len(operation.tags) |->
                                                  StrNode(operation.tags[i])]]]>>
                    ELSE <<>>]

PathsNode(paths) ==
  [kind |-> "map",
   entries |-> [i \in 1..Len(paths) |->
     [key |-> paths[i].path,
      val |-> IF ItemKind(paths[i]) # "map" THEN [kind |-> ItemKind(paths[i])]
              ELSE [kind |-> "map",
                    entries |-> [j \in 1..Len(paths[i].item) |->
                      [key |-> paths[i].item[j].key,
                       val |-> OperationNode(paths[i].item[j].val)]]]]]]

\* self.spec as a node.
DocNode(d) ==
  IF d.kind # "map" THEN [kind |-> d.kind]
  ELSE [kind |-> "map",
        entries |->
          (IF "openapi" \in d.has THEN <<[key |-> K_openapi, val |-> StrNode("3.0.0")]>>
           ELSE <<>>)
          \o (IF "swagger" \in d.has THEN <<[key |-> K_swagger, val |-> StrNode("2.0")]>>
              ELSE <<>>)
          \o (IF "info" \in d.has THEN <<[key |-> K_info, val |-> InfoNode(d.info)]>>
              ELSE <<>>)
          \o (IF "paths" \in d.has THEN <<[key |-> K_paths, val |-> PathsNode(d.paths)]>>
              ELSE <<>>)
          \o (IF "components" \in DOMAIN d
              THEN <<[key |-> K_components, val |-> d.components]>>
              ELSE <<>>)]

\* s.startswith(prefix)
StartsWith(s, prefix) ==
  Len(s) >= Len(prefix) /\ SubSeq(s, 1, Len(prefix)) = prefix

\* s.split(sep) for a one-character separator
RECURSIVE SplitFrom(_, _, _)
SplitFrom(s, sep, current) ==
  IF s = <<>> THEN <<current>>
  ELSE IF Head(s) = sep THEN <<current>> \o SplitFrom(Tail(s), sep, <<>>)
  ELSE SplitFrom(Tail(s), sep, Append(current, Head(s)))

Split(s, sep) == SplitFrom(s, sep, <<>>)

\* obj[part] for a string part: the value under the key of a mapping, KeyError
\* for a missing key, TypeError for anything that is not a mapping.
NodeSubscript(obj, part) ==
  IF obj.kind # "map" THEN [error |-> "TypeError"]
  ELSE IF ~ItemHas(obj.entries, part) THEN [error |-> "KeyError"]
  ELSE [error |-> "none", node |-> ItemGet(obj.entries, part)]

\* for part in parts: obj = obj[part]
\* The loop rebinds the local obj; self.spec is carried along as it is left.
RECURSIVE ResolveLoop(_, _)
ResolveLoop(st, parts) ==
  IF parts = <<>> THEN [spec |-> st.spec, result |-> Returned(st.obj)]
  ELSE LET step == NodeSubscript(st.obj, Head(parts))
       IN  IF step.error # "none" THEN [spec |-> st.spec, result |-> Returned(PyNone)]
           ELSE ResolveLoop([spec |-> st.spec, obj |-> step.node], Tail(parts))

\* A resolver that records in the document that a pointer was resolved.
ResolveRunCaching(d, ref) ==
  LET run == IF ~StartsWith(ref, <<"#", "/">>) THEN [spec |-> d, result |-> Returned(PyNone)]
             ELSE ResolveLoop([spec |-> d, obj |-> DocNode(d)],
                              Split(SubSeq(ref, 3, Len(ref)), "/"))
  IN  IF run.result.value = PyNone \/ d.kind # "map" THEN run
      ELSE [spec |-> [d EXCEPT !.has = @ \cup {"resolved"}], result |-> run.result]

\* The run of resolve_schema_reference: self.spec afterwards and the result.
ResolveRun(d, ref) ==
  IF ~StartsWith(ref, <<"#", "/">>) THEN [spec |-> d, result |-> Returned(PyNone)]
  ELSE ResolveLoop([spec |-> d, obj |-> DocNode(d)], Split(SubSeq(ref, 3, Len(ref)), "/"))

ResolveSchemaReference(d, ref) == ResolveRun(d, ref).result

\* Pointers: to a schema, to a missing schema, into a sequence, below a string,
\* without the "#/" prefix, with an empty segment, to a top-level key.
PointerInputs ==
  {PointerTo(<<"A">>), PointerTo(<<"B">>), PointerTo(<<"L">>), PointerTo(<<"X">>),
   PointerTo(<<"L">>) \o <<"/", "0">>,
   PointerTo(<<"L">>) \o <<"/", "5">>,
   PointerTo(<<"A">>) \o <<"/">> \o K_type,
   PointerTo(<<"A">>) \o <<"/">> \o K_type \o <<"/", "x">>,
   K_components \o <<"/">> \o K_schemas \o <<"/", "A">>,
   <<"#">> \o K_components,
   <<"#", "/">>,
   <<"#", "/">> \o K_openapi,
   <<"#", "/">> \o K_components \o <<"/">>}

ResolveInit ==
  /\ doc \in ResolveDocs
  /\ call = [op |-> "none", arg |-> <<>>]
  /\ ret = Returned(<<>>)

Resolve ==
  /\ Idle
  /\ \E ref \in PointerInputs :
       /\ call' = [op |-> "resolve_schema_reference", arg |-> ref]
       /\ ret' = ResolveRun(doc, ref).result
       /\ doc' = ResolveRun(doc, ref).spec

\* The resolver and the analyzer's queries on one loaded document.
ResolveNext ==
  \/ Resolve
  \/ Statistics
  \/ FindByTag
  \/ FindByMethod
  \/ ListAll
  \/ RequestBodySchema
  \/ ResponseSchemas
  \/ Return

ResolveSpec == ResolveInit /\ [][ResolveNext]_vars

\* The index a segment of decimal digits denotes, or -1.
SegmentIndex(part) ==
  IF part = <<"0">> THEN 0
  ELSE IF part = <<"1">> THEN 1
  ELSE IF part = <<"5">> THEN 5
  ELSE -1

\* The descent the claim describes: a segment selects the value under a key of
\* a mapping or the element at a valid index of a sequence; anything else fails.
RECURSIVE DescendByKeyOrIndex(_, _)
DescendByKeyOrIndex(node, parts) ==
  IF parts = <<>> THEN node
  ELSE IF node.kind = "map" /\ ItemHas(node.entries, Head(parts))
    THEN DescendByKeyOrIndex(ItemGet(node.entries, Head(parts)), Tail(parts))
  ELSE IF /\ node.kind = "list"
          /\ "elems" \in DOMAIN node
          /\ SegmentIndex(Head(parts)) \in 0..(Len(node.elems) - 1)
    THEN DescendByKeyOrIndex(node.elems[SegmentIndex(Head(parts)) + 1], Tail(parts))
  ELSE PyNone

NodeClaimed(d, ref) ==
  IF ~StartsWith(ref, <<"#", "/">>) THEN PyNone
  ELSE DescendByKeyOrIndex(DocNode(d), Split(SubSeq(ref, 3, Len(ref)), "/"))

\* C13: resolve descends one segment at a time after "#/": it returns the node
\* reached when every segment is a key, or a valid index of a sequence, of the
\* current node, and it returns the failure value and does not raise otherwise.
C13_ResolveReachesNodeOrFails ==
  call.op = "resolve_schema_reference" =>
    /\ ret.raised = "none"
    /\ ret.value = NodeClaimed(doc, call.arg)

IsRef(node) == node.kind = "map" /\ ItemHas(node.entries, K_ref)

\* Following the references from a pointer comes back to a pointer already
\* followed.
RECURSIVE ChainRevisits(_, _, _)
ChainRevisits(d, ref, stack) ==
  IF ref \in stack THEN TRUE
  ELSE LET node == ResolveSchemaReference(d, ref).value
       IN  IF IsRef(node)
           THEN ChainRevisits(d, ItemGet(node.entries, K_ref).text, stack \cup {ref})
           ELSE FALSE

\* C14: resolving a pointer whose references form a cycle yields a failure and
\* never a reference object in place of a schema.
C14_CycleYieldsFailure ==
  (call.op = "resolve_schema_reference" /\ ChainRevisits(doc, call.arg, {})) =>
    ret = Returned(PyNone)

\* C15: the document after resolve_schema_reference, and after any query of
\* the analyzer, equals the document before it.
C15_DocumentUnchanged == [][doc' = doc]_vars

\* A pointer was resolved to a node of a document that declares schemas.
C15_Witness ==
  /\ call.op = "resolve_schema_reference"
  /\ doc.kind = "map"
  /\ call.arg = PointerTo(<<"A">>)
  /\ ItemHas(ItemGet(doc.components.entries, K_schemas).entries, <<"A">>)
  /\ ret = Returned(ObjectSchema)

(***************************************************************************)
(* OpenAPIExporter: export_endpoints_csv and generate_postman_collection.  *)
(*                                                                         *)
(* An export writes one file; the result of the call is what was written:  *)
(* the records of the CSV file, or the collection object dumped as JSON.   *)
(***************************************************************************)
\* The most path-item entries of a document of the export universe.
MaxExportOps == 2

\* The most parameters an operation declares.
MaxParams == 2

P_item == <<"/","a","/","{","i","d","}">>

ExportKeys == {K_get, K_post, K_head}

\* Operations that differ in summary and tags.
ExportOperations ==
  {[kind |-> "map", hasTags |-> FALSE, tags |-> <<>>],
   [kind |-> "map", hasTags |-> TRUE, tags |-> <<"pets">>, summary |-> "List pets"],
   [kind |-> "map", hasTags |-> TRUE, tags |-> <<"pets", "untagged">>, summary |-> "",
    deprecated |-> TRUE]}

RECURSIVE ExportItemsOver(_, _)
ExportItemsOver(keys, n) ==
  IF n = 0 THEN {<<>>}
  ELSE UNION {{<<[key |-> k, val |-> v]>> \o rest :
                 v \in ExportOperations, rest \in ExportItemsOver(keys \ {k}, n - 1)} :
              k \in keys}

RECURSIVE ExportPathMapsOver(_, _)
ExportPathMapsOver(order, budget) ==
  IF order = <<>> THEN {<<>>}
  ELSE UNION {{<<[path |-> Head(order), item |-> it]>> \o rest :
                 it \in ExportItemsOver(ExportKeys, n),
                 rest \in ExportPathMapsOver(Tail(order), budget - n)} :
              n \in 0..budget}

\* Parameter objects: query parameters with and without a required flag, and
\* parameters of the other locations.
Parameters ==
  {[name |-> "limit", in |-> "query"],
   [name |-> "offset", in |-> "query", required |-> TRUE],
   [name |-> "q", in |-> "query", required |-> FALSE],
   [name |-> "id", in |-> "path", required |-> TRUE],
   [name |-> "X-Trace", in |-> "header"],
   [name |-> "sid", in |-> "cookie", required |-> TRUE]}

RECURSIVE ParameterListsOver(_, _)
ParameterListsOver(params, n) ==
  IF n = 0 THEN {<<>>}
  ELSE UNION {{<<q>> \o rest : rest \in ParameterListsOver(params \ {q}, n - 1)} :
              q \in params}

ParameterLists == UNION {ParameterListsOver(Parameters, n) : n \in 0..MaxParams}

\* A server object with a "url", and one with a description only.
Server(url) == [kind |-> "map", url |-> url]

ServerWithoutUrl == [kind |-> "map", description |-> "staging"]

\* The value under "servers": null or a sequence of servers.
ServersValues ==
  {PyNone}
    \cup {[kind |-> "list", elems |-> e] :
            e \in {<<>>,
                   <<Server("https://one")>>,
                   <<Server("https://one"), Server("https://two")>>,
                   <<Server("https://two"), Server("https://one")>>,
                   <<Server("")>>,
                   <<ServerWithoutUrl>>,
                   <<ServerWithoutUrl, Server("https://one")>>,
                   <<[kind |-> "str", text |-> "https://one"]>>}}

\* Documents that differ in their paths, in the parameters of one operation,
\* or in their servers; and values that are not mappings.
ExportDocs ==
  {[kind |-> "map", has |-> TopKeys, info |-> FullInfo, paths |-> ps] :
     ps \in UNION {ExportPathMapsOver(order, MaxExportOps) : order \in PathOrders}}
    \cup {[kind |-> "map", has |-> TopKeys, info |-> FullInfo,
           paths |-> <<[path |-> P_item,
                        item |-> <<[key |-> K_get,
                                    val |-> [kind |-> "map", hasTags |-> FALSE,
                                             tags |-> <<>>, parameters |-> ps]]>>]>>] :
            ps \in ParameterLists}
    \cup {[kind |-> "map", has |-> TopKeys, info |-> FullInfo,
           paths |-> <<[path |-> P_a,
                        item |-> <<[key |-> K_get,
                                    val |-> [kind |-> "map", hasTags |-> FALSE,
                                             tags |-> <<>>]]>>]>>,
           servers |-> sv] :
            sv \in ServersValues}
    \cup {[kind |-> k, has |-> {}, info |-> NoInfo, paths |-> <<>>] :
            k \in {"null", "list"}}

\* fieldnames, written by writer.writeheader()
CsvHeader == <<"Method", "Path", "Summary", "Tags", "Deprecated">>

\* ', '.join(tags), as the pieces joined
RECURSIVE Join(_, _)
Join(sep, pieces) ==
  IF pieces = <<>> THEN <<>>
  ELSE IF Len(pieces) = 1 THEN pieces
  ELSE <<Head(pieces), sep>> \o Join(sep, Tail(pieces))

\* The csv module writes a boolean as str(value).
CsvBool(b) == IF b THEN "True" ELSE "False"

\* writer.writerow(...) for each endpoint
CsvRows(endpoints) ==
  [i \in 1..Len(endpoints) |->
     <<endpoints[i].method, endpoints[i].path, endpoints[i].summary,
       Join(", ", endpoints[i].tags), CsvBool(endpoints[i].deprecated)>>]

\* An export that writes the header only when there is an endpoint.
ExportEndpointsCsvBare(d) ==
  LET listed == ListAllEndpoints(d)
  IN  IF listed.raised # "none" THEN listed
      ELSE IF listed.value = <<>> THEN Returned(<<>>)
      ELSE Returned(<<CsvHeader>> \o CsvRows(listed.value))

ExportEndpointsCsv(d) ==
  LET listed == ListAllEndpoints(d)
  IN  IF listed.raised # "none" THEN listed
      ELSE Returned(<<CsvHeader>> \o CsvRows(listed.value))

\* The literal list generate_postman_collection loops over.
PostmanMethods == <<K_get, K_post, K_put, K_delete, K_patch>>

RECURSIVE PostmanVisits(_)
PostmanVisits(paths) ==
  IF paths = <<>> THEN <<>>
  ELSE VisitMethods(Head(paths).path, Head(paths).item, PostmanMethods)
       \o PostmanVisits(Tail(paths))

\* "{{base_url}}"
BaseUrlVar == <<"{","{","b","a","s","e","_","u","r","l","}","}">>

\* base_url = servers[0]["url"] if servers else ""
BaseUrl(d) ==
  LET servers == DictGet(d, "servers", [kind |-> "list", elems |-> <<>>])
  IN  IF servers.kind # "list" \/ servers.elems = <<>> THEN Returned("")
      ELSE IF servers.elems[1].kind # "map" THEN Raised("TypeError")
      ELSE IF "url" \notin DOMAIN servers.elems[1] THEN Raised("KeyError")
      ELSE Returned(servers.elems[1].url)

\* A display name with the method as the document spells it.
ItemNameLowerMethod(operation, method, path) ==
  DictGet(operation, "summary", method \o <<" ">> \o path)

\* operation.get("summary", f"{method.upper()} {path}")
ItemName(operation, method, path) ==
  DictGet(operation, "summary", Upper(method) \o <<" ">> \o path)

\* A query list of all the parameters, whatever their location.
QueryListUnfiltered(parameters) ==
  [i \in 1..Len(parameters) |->
     [key |-> parameters[i].name, value |-> "",
      disabled |-> ~DictGet(parameters[i], "required", FALSE)]]

\* [{...} for p in operation["parameters"] if p.get("in") == "query"]
QueryList(parameters) ==
  LET query == SelectSeq(parameters, LAMBDA q : DictGet(q, "in", PyNone) = "query")
  IN  [i \in 1..Len(query) |->
         [key |-> query[i].name, value |-> "",
          disabled |-> ~DictGet(query[i], "required", FALSE)]]

\* One request of the collection; the "query" key exists only when the
\* operation has a non-empty parameter list.
PostmanItem(visit) ==
  LET name == ItemName(visit.operation, visit.method, visit.path)
      raw == BaseUrlVar \o visit.path
      segments == Tail(Split(visit.path, "/"))
      parameters == DictGet(visit.operation, "parameters", <<>>)
  IN  [name |-> name,
       request |->
         [method |-> Upper(visit.method),
          url |-> IF parameters # <<>>
                  THEN [raw |-> raw, host |-> <<BaseUrlVar>>, path |-> segments,
                        query |-> QueryList(parameters)]
                  ELSE [raw |-> raw, host |-> <<BaseUrlVar>>, path |-> segments]]]

GeneratePostmanCollection(d) ==
  IF d.kind # "map" THEN Raised("AttributeError")
  ELSE IF BaseUrl(d).raised # "none" THEN BaseUrl(d)
  ELSE IF "info" \in d.has /\ d.info.kind # "map" THEN Raised("AttributeError")
  ELSE
    LET visits == PostmanVisits(d.paths)
    IN  IF WalkError(d.paths, PostmanMethods) # "none"
          THEN Raised(WalkError(d.paths, PostmanMethods))
        ELSE Returned(
          [info |-> [name |-> IF "info" \in d.has /\ d.info.title THEN "T" ELSE "API",
                     description |-> "",
                     version |-> IF "info" \in d.has /\ d.info.version THEN "1" ELSE "1.0.0"],
           item |-> [i \in 1..Len(visits) |-> PostmanItem(visits[i])],
           variable |-> IF BaseUrl(d).value # ""
                        THEN <<[key |-> "base_url", value |-> BaseUrl(d).value]>>
                        ELSE <<>>])

ExportInit ==
  /\ doc \in ExportDocs
  /\ call = [op |-> "none", arg |-> <<>>]
  /\ ret = Returned(<<>>)

ExportCsv ==
  /\ Idle
  /\ call' = [op |-> "export_endpoints_csv", arg |-> <<>>]
  /\ ret' = ExportEndpointsCsv(doc)
  /\ UNCHANGED doc

ExportPostman ==
  /\ Idle
  /\ call' = [op |-> "generate_postman_collection", arg |-> <<>>]
  /\ ret' = GeneratePostmanCollection(doc)
  /\ UNCHANGED doc

ExportNext ==
  \/ ExportCsv
  \/ ExportPostman
  \/ Extract
  \/ ListAll
  \/ Return

ExportSpec == ExportInit /\ [][ExportNext]_vars

\* The records written after the header.
CsvRecords == Tail(ret.value)

\* C16: the CSV export is the header record followed by exactly one record per
\* endpoint of the document in ascending (path, method) order, also when the
\* document has no endpoint: 1 + the number of extracted endpoints records.
C16_CsvHeaderAndSortedRecords ==
  (call.op = "export_endpoints_csv" /\ WellFormed(doc)) =>
    /\ ret.raised = "none"
    /\ Len(ret.value) = 1 + Len(ExtractEndpoints(doc).value)
    /\ Head(ret.value) = <<"Method", "Path", "Summary", "Tags", "Deprecated">>
    /\ \A i, j \in 1..Len(CsvRecords) :
         i < j =>
           \/ StrLess(CsvRecords[i][2], CsvRecords[j][2])
           \/ CsvRecords[i][2] = CsvRecords[j][2]
              /\ StrLess(CsvRecords[i][1], CsvRecords[j][1])
    /\ {<<CsvRecords[i][1], CsvRecords[i][2]>> : i \in 1..Len(CsvRecords)}
         = {<<ExtractEndpoints(doc).value[i].val.method,
              ExtractEndpoints(doc).value[i].val.path>> :
              i \in 1..Len(ExtractEndpoints(doc).value)}

\* Endpoints declared out of order, /b before /a, are written /a first.
C16_Witness ==
  /\ call.op = "export_endpoints_csv"
  /\ Len(doc.paths) = 2
  /\ doc.paths[1].path = P_b
  /\ Len(ret.value) = 3
  /\ ret.value[2][2] = P_a
  /\ ret.value[3][2] = P_b

\* C17: the Postman export has exactly one item per (path, method) endpoint of
\* the document, for all seven methods: as many items as extracted endpoints,
\* and an item with the method and the path of every extracted endpoint.
C17_OneItemPerEndpoint ==
  (call.op = "generate_postman_collection" /\ ret.raised = "none") =>
    /\ Len(ret.value.item) = Len(ExtractEndpoints(doc).value)
    /\ \A i \in 1..Len(ExtractEndpoints(doc).value) :
         \E k \in 1..Len(ret.value.item) :
           /\ ret.value.item[k].request.method = ExtractEndpoints(doc).value[i].val.method
           /\ ret.value.item[k].request.url.raw
                = BaseUrlVar \o ExtractEndpoints(doc).value[i].val.path

\* The operations the items of the collection were made for, item by item.
ItemOperations == PostmanVisits(doc.paths)

\* C18: the query list of an item holds exactly the operation's parameters
\* whose location is query, in declared order, each with value "" and
\* disabled = NOT required (no required flag: disabled); parameters of the
\* other locations never appear.
C18_QueryListIsQueryParameters ==
  (call.op = "generate_postman_collection" /\ ret.raised = "none") =>
    \A i \in 1..Len(ret.value.item) :
      LET declared == DictGet(ItemOperations[i].operation, "parameters", <<>>)
          inQuery == {k \in 1..Len(declared) : declared[k]["in"] = "query"}
          listed == DictGet(ret.value.item[i].request.url, "query", <<>>)
      IN  /\ Len(listed) = Cardinality(inQuery)
          /\ \A n \in 1..Len(listed) :
               \E k \in inQuery :
                 /\ Cardinality({m \in inQuery : m < k}) = n - 1
                 /\ listed[n].key = declared[k].name
                 /\ listed[n].value = ""
                 /\ listed[n].disabled
                      = ("required" \notin DOMAIN declared[k] \/ ~declared[k].required)

\* A path parameter and a query parameter without a required flag: the query
\* list holds the query parameter only, disabled.
C18_Witness ==
  /\ call.op = "generate_postman_collection"
  /\ ret.raised = "none"
  /\ Len(ret.value.item) = 1
  /\ ItemOperations[1].operation
       = [kind |-> "map", hasTags |-> FALSE, tags |-> <<>>,
          parameters |-> <<[name |-> "id", in |-> "path", required |-> TRUE],
                           [name |-> "limit", in |-> "query"]>>]
  /\ ret.value.item[1].request.url.query
       = <<[key |-> "limit", value |-> "", disabled |-> TRUE]>>

\* The document declares a server with a URL.
DeclaresServerUrl(d) ==
  /\ "servers" \in DOMAIN d
  /\ d.servers.kind = "list"
  /\ \E i \in 1..Len(d.servers.elems) :
       /\ d.servers.elems[i].kind = "map"
       /\ "url" \in DOMAIN d.servers.elems[i]
       /\ d.servers.elems[i].url # ""

\* C19: the variable list holds a base_url entry exactly when the document
\* declares a server URL, its value the URL of the first server; with no
\* servers the list is empty; the export fails for no shape of the servers list.
C19_BaseUrlIffServerDeclared ==
  (call.op = "generate_postman_collection" /\ WellFormed(doc)) =>
    /\ ret.raised = "none"
    /\ IF DeclaresServerUrl(doc)
       THEN ret.value.variable
              = <<[key |-> "base_url", value |-> doc.servers.elems[1].url]>>
       ELSE ret.value.variable = <<>>

\* "/" + segment for every segment, one after the other
RECURSIVE SlashJoined(_)
SlashJoined(segments) ==
  IF segments = <<>> THEN <<>>
  ELSE <<"/">> \o Head(segments) \o SlashJoined(Tail(segments))

\* C20: an item's name is the operation's summary when it declares one and
\* "METHOD PATH" otherwise, the method in upper case and the path as declared;
\* its raw URL is "{{base_url}}" followed by the path, and its path segments
\* are the pieces of the path between the '/' characters, the empty piece
\* before the leading '/' left out.
C20_ItemNameAndUrl ==
  (call.op = "generate_postman_collection" /\ ret.raised = "none") =>
    \A i \in 1..Len(ret.value.item) :
      LET item == ret.value.item[i]
          made == ItemOperations[i]
      IN  /\ IF "summary" \in DOMAIN made.operation
             THEN item.name = made.operation.summary
             ELSE /\ Len(item.name) = Len(made.method) + 1 + Len(made.path)
                  /\ IsUpperCase(SubSeq(item.name, 1, Len(made.method)))
                  /\ SameUpToCase(SubSeq(item.name, 1, Len(made.method)), made.method)
                  /\ item.name[Len(made.method) + 1] = " "
                  /\ SubSeq(item.name, Len(made.method) + 2, Len(item.name)) = made.path
          /\ item.request.url.raw
               = <<"{","{","b","a","s","e","_","u","r","l","}","}">> \o made.path
          /\ SlashJoined(item.request.url.path) = made.path
          /\ \A n \in 1..Len(item.request.url.path) :
               "/" \notin Elems(item.request.url.path[n])

\* An operation without a summary on /a/{id}: named "GET /a/{id}", two segments.
C20_Witness ==
  /\ call.op = "generate_postman_collection"
  /\ ret.raised = "none"
  /\ Len(ret.value.item) = 1
  /\ "summary" \notin DOMAIN ItemOperations[1].operation
  /\ ret.value.item[1].name = <<"G","E","T"," ">> \o P_item
  /\ ret.value.item[1].request.url.path = <<<<"a">>, <<"{","i","d","}">>>>

(***************************************************************************)
(* Properties of the extracted collection.                                 *)
(***************************************************************************)
\* The endpoint records of the result of an extraction or of list_all_endpoints.
EndpointsReturned ==
  IF call.op = "list_all_endpoints" THEN ret.value
  ELSE [i \in 1..Len(ret.value) |-> ret.value[i].val]

\* C21: in the collection returned by extract (both generators) and by
\* list_all_endpoints no two endpoints share their (method, path), every
\* method is one of the seven method tokens in upper case, and every endpoint
\* comes from a path-item key that is one of the seven tokens.
C21_MethodPathUnique ==
  (/\ call.op \in {"extract_endpoints", "main.extract_endpoints", "list_all_endpoints"}
   /\ ret.raised = "none") =>
    /\ \A i, j \in 1..Len(EndpointsReturned) :
         i # j => \/ EndpointsReturned[i].method # EndpointsReturned[j].method
                  \/ EndpointsReturned[i].path # EndpointsReturned[j].path
    /\ \A i \in 1..Len(EndpointsReturned) :
         /\ EndpointsReturned[i].method
              \in {<<"G","E","T">>, <<"P","O","S","T">>, <<"P","U","T">>,
                   <<"D","E","L","E","T","E">>, <<"P","A","T","C","H">>,
                   <<"H","E","A","D">>, <<"O","P","T","I","O","N","S">>}
         /\ \E p \in 1..Len(doc.paths) :
              /\ doc.paths[p].path = EndpointsReturned[i].path
              /\ \E k \in 1..Len(doc.paths[p].item) :
                   SameUpToCase(doc.paths[p].item[k].key, EndpointsReturned[i].method)

\* A path item with a TRACE operation, path-level parameters or both next to
\* a method: only the method gives an endpoint.
C21_Witness ==
  /\ call.op = "main.extract_endpoints"
  /\ ret.raised = "none"
  /\ Len(doc.paths) = 1
  /\ Len(doc.paths[1].item) = 2
  /\ doc.paths[1].item[1].key = K_trace
  /\ doc.paths[1].item[2].key = K_get
  /\ Len(ret.value) = 1
  /\ ret.value[1].val.method = <<"G","E","T">>

\* The extracted collection the groups were built from.
Extracted == ExtractEndpointsMain(doc).value

\* The position of an endpoint in the extracted collection.
ExtractedAt(key) == CHOOSE i \in 1..Len(Extracted) : Extracted[i].key = key

\* Where a tag first appears: the first endpoint that carries it, and the
\* place of the tag in that endpoint's tag list.
FirstEndpointWith(tag) ==
  CHOOSE i \in 1..Len(Extracted) :
    /\ tag \in Elems(Extracted[i].val.tags)
    /\ \A j \in 1..(i - 1) : tag \notin Elems(Extracted[j].val.tags)

FirstPlaceIn(tags, tag) ==
  CHOOSE n \in 1..Len(tags) : tags[n] = tag /\ \A m \in 1..(n - 1) : tags[m] # tag

\* C22: an endpoint with N distinct tags is in exactly N groups, once in each;
\* the group of a tag holds exactly the endpoints whose tag list contains it;
\* groups, and the endpoints of a group, are in order of first appearance in
\* the extracted collection.
C22_GroupFanOut ==
  Called("group_by_tags") =>
    /\ \A i \in 1..Len(Extracted) :
         /\ Cardinality({g \in 1..Len(ret.value) :
                           \E m \in 1..Len(ret.value[g].val) :
                             ret.value[g].val[m].key = Extracted[i].key})
              = Cardinality(Elems(Extracted[i].val.tags))
         /\ \A g \in 1..Len(ret.value) :
              Cardinality({m \in 1..Len(ret.value[g].val) :
                             ret.value[g].val[m].key = Extracted[i].key}) <= 1
    /\ \A g \in 1..Len(ret.value) :
         /\ {ret.value[g].val[m].key : m \in 1..Len(ret.value[g].val)}
              = {Extracted[i].key : i \in {x \in 1..Len(Extracted) :
                                             ret.value[g].key \in Elems(Extracted[x].val.tags)}}
         /\ \A m, n \in 1..Len(ret.value[g].val) :
              m < n => ExtractedAt(ret.value[g].val[m].key)
                         <= ExtractedAt(ret.value[g].val[n].key)
    /\ \A g, h \in 1..Len(ret.value) :
         g < h =>
           LET a == FirstEndpointWith(ret.value[g].key)
               b == FirstEndpointWith(ret.value[h].key)
           IN  \/ a < b
               \/ a = b /\ FirstPlaceIn(Extracted[a].val.tags, ret.value[g].key)
                             < FirstPlaceIn(Extracted[a].val.tags, ret.value[h].key)


(***************************************************************************)
(* Documents with values that are not mappings where a path item or an     *)
(* operation is expected.                                                  *)
(*                                                                         *)
(* /a holds one or two entries under get and post, each a well-formed      *)
(* operation or null, a string or a list; or /a itself is null or an       *)
(* empty list.  /b, when declared, holds one well-formed GET.              *)
(***************************************************************************)
MalformedOperations ==
  {[kind |-> k, hasTags |-> FALSE, tags |-> <<>>] : k \in {"null", "str", "list"}}

IsolationValues ==
  {[kind |-> "map", hasTags |-> FALSE, tags |-> <<>>],
   [kind |-> "map", hasTags |-> TRUE, tags |-> <<"pets">>]}
    \cup MalformedOperations

IsolationItems ==
  {<<[key |-> k, val |-> v]>> : k \in {K_get, K_post}, v \in IsolationValues}
    \cup UNION {{<<[key |-> k1, val |-> v1], [key |-> k2, val |-> v2]>> :
                   k2 \in {K_get, K_post} \ {k1},
                   v1 \in IsolationValues, v2 \in IsolationValues} :
                 k1 \in {K_get, K_post}}

\* A path whose value is no mapping has nothing to iterate: its item is empty
\* and itemKind tells what the value is.
IsolationEntries ==
  {[path |-> P_a, item |-> it] : it \in IsolationItems}
    \cup {[path |-> P_a, item |-> <<>>, itemKind |-> k] : k \in {"null", "list"}}

WellFormedEntry ==
  [path |-> P_b,
   item |-> <<[key |-> K_get,
               val |-> [kind |-> "map", hasTags |-> TRUE, tags |-> <<"pets">>]]>>]

IsolationDocs ==
  {[kind |-> "map", has |-> TopKeys, info |-> FullInfo, paths |-> ps] :
     ps \in UNION {{<<e>>, <<e, WellFormedEntry>>, <<WellFormedEntry, e>>} :
                     e \in IsolationEntries}}

IsolationInit ==
  /\ doc \in IsolationDocs
  /\ call = [op |-> "none", arg |-> <<>>]
  /\ ret = Returned(<<>>)

IsolationNext ==
  \/ Extract
  \/ ExtractMain
  \/ Statistics
  \/ Return

IsolationSpec == IsolationInit /\ [][IsolationNext]_vars

\* The (METHOD, path) of the entries that are an operation mapping under one of
\* the seven method keys of a path item that is a mapping.
WellFormedEndpoints(d) ==
  UNION {{<<Upper(d.paths[p].item[k].key), d.paths[p].path>> :
            k \in {k \in 1..Len(d.paths[p].item) :
                     /\ d.paths[p].item[k].key \in Elems(HttpMethods)
                     /\ d.paths[p].item[k].val.kind = "map"}} :
         p \in 1..Len(d.paths)}

\* C23: a value under a path that is no mapping (and a path item that is no
\* mapping) is skipped by endpoint extraction and by the statistics: the call
\* returns, and it reports exactly the well-formed operations of the document.
C23_MalformedEntrySkipped ==
  (call.op \in {"extract_endpoints", "main.extract_endpoints", "get_statistics"}) =>
    /\ ret.raised = "none"
    /\ call.op = "get_statistics" =>
         ret.value.total_endpoints = Cardinality(WellFormedEndpoints(doc))
    /\ call.op # "get_statistics" =>
         {<<ret.value[i].val.method, ret.value[i].val.path>> : i \in 1..Len(ret.value)}
           = WellFormedEndpoints(doc)


(***************************************************************************)
(* process_directory of both generators.                                   *)
(*                                                                         *)
(* doc is the generator in use and the directory listing: for every file   *)
(* its extension and what process_openapi_file does on it ("ok", or the    *)
(* exception it raises: a parse failure of load, an AttributeError of a    *)
(* document that is no mapping).  call.arg is the position in the globbed  *)
(* file list, ret.value the files attempted so far with their outcome.     *)
(***************************************************************************)
MaxFiles == 3

Extensions == {"json", "yaml", "yml"}

Fates == {"ok", "JSONDecodeError", "AttributeError"}

Directories == UNION {[1..n -> [ext : Extensions, fate : Fates]] : n \in 0..MaxFiles}

\* dir_path.glob("*." + ext): the files of the listing with that extension.
Glob(dir, ext) ==
  SelectSeq([i \in 1..Len(dir) |-> i], LAMBDA i : dir[i].ext = ext)

\* main.py globs *.json and *.yaml; advanced_generator.py also *.yml.
GlobbedFiles(generator, dir) ==
  Glob(dir, "json") \o Glob(dir, "yaml")
    \o (IF generator = "advanced" THEN Glob(dir, "yml") ELSE <<>>)

\* A loop body without try/except: the exception of the file leaves the loop.
AttemptFileUncaught(dir, file, log) ==
  IF dir[file].fate = "ok"
    THEN Returned(Append(log, [file |-> file, outcome |-> "ok"]))
  ELSE [raised |-> dir[file].fate,
        value |-> Append(log, [file |-> file, outcome |-> dir[file].fate])]

\* try: self.process_openapi_file(str(file_path)) / except Exception: print(...)
AttemptFile(dir, file, log) ==
  Returned(Append(log, [file |-> file, outcome |-> dir[file].fate]))

BatchInit ==
  /\ doc \in {[generator |-> g, dir |-> d] : g \in {"main", "advanced"}, d \in Directories}
  /\ call = [op |-> "none", arg |-> 1]
  /\ ret = Returned(<<>>)

\* The call, up to the loop; main.py returns at once when the glob is empty.
ProcessDirectory ==
  /\ call.op = "none"
  /\ call' = [op |-> IF doc.generator = "main" /\ GlobbedFiles(doc.generator, doc.dir) = <<>>
                       THEN "batch_done" ELSE "process_directory",
              arg |-> 1]
  /\ ret' = Returned(<<>>)
  /\ UNCHANGED doc

\* One iteration of `for file_path in files`.
ProcessNextFile ==
  /\ call.op = "process_directory"
  /\ call.arg <= Len(GlobbedFiles(doc.generator, doc.dir))
  /\ ret' = AttemptFile(doc.dir, GlobbedFiles(doc.generator, doc.dir)[call.arg], ret.value)
  /\ call' = IF ret'.raised = "none" THEN [call EXCEPT !.arg = @ + 1]
             ELSE [op |-> "batch_done", arg |-> call.arg]
  /\ UNCHANGED doc

\* The loop is exhausted: process_directory returns.
ProcessDirectoryReturns ==
  /\ call.op = "process_directory"
  /\ call.arg > Len(GlobbedFiles(doc.generator, doc.dir))
  /\ call' = [call EXCEPT !.op = "batch_done"]
  /\ UNCHANGED <<doc, ret>>

\* The caller goes on; the directory may be processed again.
BatchReturn ==
  /\ call.op = "batch_done"
  /\ call' = [op |-> "none", arg |-> 1]
  /\ ret' = Returned(<<>>)
  /\ UNCHANGED doc

BatchNext ==
  \/ ProcessDirectory
  \/ ProcessNextFile
  \/ ProcessDirectoryReturns
  \/ BatchReturn

\* The loop is sequential code: a step that can be taken is taken.
BatchSpec == BatchInit /\ [][BatchNext]_vars /\ WF_vars(BatchNext)

BatchStarted == call.op = "process_directory" /\ call.arg = 1

\* The call has returned normally and the log names every globbed file, once, in order.
BatchCompleted ==
  /\ call.op = "batch_done"
  /\ ret.raised = "none"
  /\ [i \in 1..Len(ret.value) |-> ret.value[i].file] = GlobbedFiles(doc.generator, doc.dir)

\* C24: a batch that has started comes to its end with every file of the
\* sequence attempted once, in order, whatever the files before it did, and
\* process_directory itself returns without an exception.
C24_BatchContinues == BatchStarted ~> BatchCompleted

\* A batch whose first file failed and whose later files were attempted.
C24_Witness ==
  /\ BatchCompleted
  /\ Len(ret.value) = MaxFiles
  /\ ret.value[1].outcome = "JSONDecodeError"
  /\ ret.value[2].outcome = "ok"
  /\ ret.value[3].outcome = "AttributeError"


(***************************************************************************)
(* AdvancedOpenAPIDocGenerator.get_security_info                           *)
(*                                                                         *)
(* A security value is a list of requirement objects; a requirement object *)
(* is given by its keys, the scheme names, in order.  The operation and    *)
(* the document are records that hold a "security" field when the key is   *)
(* present.  The text returned is given as its pieces.                     *)
(***************************************************************************)
MaxRequirements == 2

SchemeNames == {"apiKey", "oauth"}

Requirements == {<<>>, <<"apiKey">>, <<"oauth">>, <<"apiKey", "oauth">>}

SecurityValues == UNION {[1..n -> Requirements] : n \in 0..MaxRequirements}

SecurityOperations ==
  {[kind |-> "map"]} \cup {[kind |-> "map", security |-> s] : s \in SecurityValues}

SecurityDocs ==
  {[kind |-> "map", operation |-> o] : o \in SecurityOperations}
    \cup {[kind |-> "map", operation |-> o, security |-> s] :
            o \in SecurityOperations, s \in SecurityValues}

\* schemes = []; for sec in security: schemes.extend(sec.keys())
RECURSIVE ExtendKeys(_)
ExtendKeys(security) ==
  IF security = <<>> THEN <<>> ELSE Head(security) \o ExtendKeys(Tail(security))

\* The text for a security value, once it is chosen.
SecurityText(security) ==
  IF security = <<>> THEN <<"No authentication required">>
  ELSE IF ExtendKeys(security) # <<>> THEN Join(", ", ExtendKeys(security))
  ELSE <<"No authentication">>

\* operation.get("security") or spec.get("security", []): an empty list of the
\* operation falls back to the document.
GetSecurityInfoInheriting(operation, spec) ==
  IF "security" \in DOMAIN operation /\ operation.security # <<>>
    THEN SecurityText(operation.security)
  ELSE SecurityText(DictGet(spec, "security", <<>>))

GetSecurityInfo(operation, spec) ==
  SecurityText(DictGet(operation, "security", DictGet(spec, "security", <<>>)))

SecurityInit ==
  /\ doc \in SecurityDocs
  /\ call = [op |-> "none", arg |-> <<>>]
  /\ ret = Returned(<<>>)

SecurityInfo ==
  /\ Idle
  /\ call' = [op |-> "get_security_info", arg |-> <<>>]
  /\ ret' = Returned(GetSecurityInfo(doc.operation, doc))
  /\ UNCHANGED doc

SecurityNext ==
  \/ SecurityInfo
  \/ Return

SecuritySpec == SecurityInit /\ [][SecurityNext]_vars

\* The scheme names a list of requirement objects names.
NamedSchemes(security) == UNION {Elems(security[i]) : i \in 1..Len(security)}

\* The scheme names in the text returned.
ReportedSchemes == Elems(ret.value) \cap SchemeNames

\* C25: an operation without a security key reports the scheme names of the
\* document-level requirements; an operation with an empty security array is
\* reported as requiring no authentication, whatever the document declares;
\* an operation with a non-empty array reports exactly its own scheme names.
C25_AbsentInheritsEmptyDoesNot ==
  Called("get_security_info") =>
    /\ "security" \notin DOMAIN doc.operation =>
         /\ ReportedSchemes = NamedSchemes(DictGet(doc, "security", <<>>))
         /\ ret.value = SecurityText(DictGet(doc, "security", <<>>))
    /\ ("security" \in DOMAIN doc.operation /\ doc.operation.security = <<>>) =>
         ret.value = <<"No authentication required">>
    /\ ("security" \in DOMAIN doc.operation /\ doc.operation.security # <<>>) =>
         /\ ReportedSchemes = NamedSchemes(doc.operation.security)
         /\ NamedSchemes(doc.operation.security) # {} =>
              ret.value = Join(", ", ExtendKeys(doc.operation.security))

\* An operation with an empty security array in a document that requires a scheme.
C25_Witness ==
  /\ Called("get_security_info")
  /\ "security" \in DOMAIN doc.operation
  /\ doc.operation.security = <<>>
  /\ "security" \in DOMAIN doc
  /\ doc.security = <<<<"apiKey">>>>
  /\ ret.value = <<"No authentication required">>


(***************************************************************************)
(* Documents whose operation and components hold references.               *)
(*                                                                         *)
(* /a declares a GET whose request body schema and whose one parameter are *)
(* {"$ref": pointer}, the pointer naming schema A or the undeclared X;     *)
(* the components declare up to MaxSchemas schemas, each an inline schema, *)
(* a reference to A or B (resolvable, broken or cyclic as the rest of the  *)
(* components make it), a sequence or null.                                *)
(***************************************************************************)
ReferencePointers == {PointerTo(<<"A">>), PointerTo(<<"X">>)}

ReferencingOperations ==
  {[kind |-> "map", hasTags |-> TRUE, tags |-> <<"pets">>]}
    \cup {[kind |-> "map", hasTags |-> TRUE, tags |-> <<"pets">>,
           parameters |-> <<RefNode(p)>>,
           requestBody |->
             [kind |-> "map",
              content |-> <<[key |-> "application/json",
                             val |-> [kind |-> "map", schema |-> RefNode(p)]]>>]] :
            p \in ReferencePointers}

LazyDocs ==
  {[kind |-> "map", has |-> {"openapi", "paths"}, info |-> NoInfo,
    paths |-> <<[path |-> P_a, item |-> <<[key |-> K_get, val |-> o]>>]>>,
    components |-> c] :
     o \in ReferencingOperations, c \in ComponentsNodes}

LazyInit ==
  /\ doc \in LazyDocs
  /\ call = [op |-> "none", arg |-> <<>>]
  /\ ret = Returned(<<>>)

LazyNext ==
  \/ Extract
  \/ ExtractMain
  \/ ListAll
  \/ Statistics
  \/ Return

LazySpec == LazyInit /\ [][LazyNext]_vars

\* The names under components.schemas, in order.
SchemaKeys(d) ==
  LET es == ItemGet(d.components.entries, K_schemas).entries
  IN  [i \in 1..Len(es) |-> es[i].key]

\* The documents that differ from d only in what their schemas hold.
SameButSchemas(d) ==
  {[d EXCEPT !.components =
      [kind |-> "map",
       entries |-> <<[key |-> K_schemas,
                      val |-> [kind |-> "map",
                               entries |-> [i \in 1..Len(SchemaKeys(d)) |->
                                 [key |-> SchemaKeys(d)[i], val |-> vals[i]]]]]>>]] :
     vals \in [1..Len(SchemaKeys(d)) -> SchemaNodes]}

ResultOn(op, d) ==
  CASE op = "extract_endpoints" -> ExtractEndpoints(d)
    [] op = "main.extract_endpoints" -> ExtractEndpointsMain(d)
    [] op = "list_all_endpoints" -> ListAllEndpoints(d)
    [] op = "get_statistics" -> GetStatistics(d)

\* C26: extraction, the endpoint listing and the statistics return, and what
\* they return is what they return on every document that differs only in
\* what the declared schemas hold, so in whether the references of the
\* operation and of the components are resolvable, broken or cyclic.
C26_ReferencesNeverResolved ==
  (call.op \in {"extract_endpoints", "main.extract_endpoints",
                "list_all_endpoints", "get_statistics"}) =>
    /\ ret.raised = "none"
    /\ \A e \in SameButSchemas(doc) : ResultOn(call.op, e) = ret

\* Statistics of a document whose operation refers to A, with A and B
\* referring to each other.
C26_Witness ==
  /\ Called("get_statistics")
  /\ "requestBody" \in DOMAIN doc.paths[1].item[1].val
  /\ doc.paths[1].item[1].val.parameters = <<RefNode(PointerTo(<<"A">>))>>
  /\ ItemGet(doc.components.entries, K_schemas).entries
       = <<[key |-> <<"A">>, val |-> RefNode(PointerTo(<<"B">>))],
           [key |-> <<"B">>, val |-> RefNode(PointerTo(<<"A">>))]>>
  /\ ret.value.schemas = 2
  /\ ret.value.total_endpoints = 1


(***************************************************************************)
(* The interactive CLI: OpenAPIDocCLI.run, process_files, configure.       *)
(*                                                                         *)
(* doc.generator is self.generator: NoGenerator for None, or the generator *)
(* given by the provider of its LLM and its language.  call.op is where    *)
(* the loop stands: "run" before the default initialisation, "menu" at the *)
(* prompt, and the name of the handler that has just returned; ret.value   *)
(* tells what the handler reported and which generator it called.  What   *)
(* the user types and whether the LLM and the generator can be built are   *)
(* inputs of the step.  The model name the user picks is not modelled.     *)
(***************************************************************************)
NoGenerator == [kind |-> "none"]

Generator(provider, language) ==
  [kind |-> "generator", provider |-> provider, language |-> language]

\* LLMConfig() and AdvancedOpenAPIDocGenerator(llm): Ollama, language "ru".
DefaultGenerator == Generator("ollama", "ru")

\* configure_llm: providers = {"1": "ollama", ...}; another choice gives None.
ProviderChoices == {"1", "2", "3", "4", "9"}

ProviderOf(choice) ==
  CASE choice = "1" -> "ollama"
    [] choice = "2" -> "openai"
    [] choice = "3" -> "anthropic"
    [] choice = "4" -> "huggingface"
    [] OTHER -> "none"

Languages == {"ru", "en"}

\* What a path typed by the user is on disk.
PathKinds == {"missing", "file", "directory"}

Report(text, used) == Returned([report |-> text, used |-> used])

\* A configure whose except branch clears self.generator.
ConfiguredGeneratorResetting(generator, choice, language, llmBuilt, generatorBuilt) ==
  IF ProviderOf(choice) = "none" THEN generator
  ELSE IF ~llmBuilt \/ ~generatorBuilt THEN NoGenerator
  ELSE Generator(ProviderOf(choice), language)

\* self.generator after configure(): assigned only when get_llm_from_config and
\* the constructor have both returned.
ConfiguredGenerator(generator, choice, language, llmBuilt, generatorBuilt) ==
  IF ProviderOf(choice) = "none" THEN generator
  ELSE IF ~llmBuilt \/ ~generatorBuilt THEN generator
  ELSE Generator(ProviderOf(choice), language)

CliInit ==
  /\ doc = [generator |-> NoGenerator]
  /\ call = [op |-> "run", arg |-> <<>>]
  /\ ret = Returned(<<>>)

\* run(), up to the loop: the default initialisation in its try/except.
DefaultInit ==
  /\ call.op = "run"
  /\ \E built \in BOOLEAN :
       /\ doc' = [generator |-> IF built THEN DefaultGenerator ELSE doc.generator]
       /\ ret' = Report(IF built THEN "initialised" ELSE "default failed", NoGenerator)
  /\ call' = [op |-> "default_init", arg |-> <<>>]

\* Choice 1: process_files().
ProcessFiles ==
  /\ call.op = "menu"
  /\ \E kind \in PathKinds, raises \in BOOLEAN :
       /\ call' = [op |-> "process_files", arg |-> kind]
       /\ ret' = IF doc.generator = NoGenerator
                   THEN Report("generator not initialised", NoGenerator)
                 ELSE IF kind = "missing" THEN Report("path not found", NoGenerator)
                 ELSE IF raises THEN Report("error", doc.generator)
                 ELSE Report("created", doc.generator)
  /\ UNCHANGED doc

\* Choice 5: configure().
Configure ==
  /\ call.op = "menu"
  /\ \E choice \in ProviderChoices, language \in Languages,
        llmBuilt \in BOOLEAN, generatorBuilt \in BOOLEAN :
       /\ call' = [op |-> "configure", arg |-> choice]
       /\ doc' = [generator |->
                    ConfiguredGenerator(doc.generator, choice, language,
                                        llmBuilt, generatorBuilt)]
       /\ ret' = IF ProviderOf(choice) = "none" THEN Report("llm not configured", NoGenerator)
                 ELSE IF ~llmBuilt \/ ~generatorBuilt
                   THEN Report("initialisation failed", NoGenerator)
                 ELSE Report("configured", NoGenerator)

\* Choices 2, 3, 4 and a choice that is none of 1..6: self.generator is not read.
OtherChoice ==
  /\ call.op = "menu"
  /\ \E choice \in {"2", "3", "4", "x"} :
       call' = [op |-> "other", arg |-> choice]
  /\ ret' = Report("done", NoGenerator)
  /\ UNCHANGED doc

\* Choice 6: sys.exit(0).
Exit ==
  /\ call.op = "menu"
  /\ call' = [op |-> "exit", arg |-> "6"]
  /\ ret' = [raised |-> "SystemExit", value |-> <<>>]
  /\ UNCHANGED doc

\* The handler has returned: the loop prints the menu again.
Menu ==
  /\ call.op \in {"default_init", "process_files", "configure", "other"}
  /\ call' = [op |-> "menu", arg |-> <<>>]
  /\ ret' = Returned(<<>>)
  /\ UNCHANGED doc

CliNext ==
  \/ DefaultInit
  \/ ProcessFiles
  \/ Configure
  \/ OtherChoice
  \/ Exit
  \/ Menu

CliSpec == CliInit /\ [][CliNext]_vars

\* process_files has just run: the generator it called, if any, is the one
\* installed, and with none installed it reported the error and called nothing.
ProcessFilesGuarded ==
  call.op = "process_files" =>
    /\ ret.value.used \in {NoGenerator, doc.generator}
    /\ doc.generator = NoGenerator =>
         /\ ret.value.report = "generator not initialised"
         /\ ret.value.used = NoGenerator

\* The step is a successful default initialisation or a successful configure.
InitialisedInStep ==
  \/ call'.op = "default_init" /\ ret'.value.report = "initialised"
  \/ call'.op = "configure" /\ ret'.value.report = "configured"

\* C27: process_files calls the generator only when one is installed, and a
\* generator is installed only by a default initialisation or a configure that
\* succeeded; with none installed process_files reports the error and calls
\* nothing; a configure that fails leaves self.generator as it was.
C27_GeneratorOnlyWhenInitialised ==
  [][/\ ProcessFilesGuarded'
     /\ doc'.generator # doc.generator => InitialisedInStep
     /\ (call'.op = "configure" /\ ret'.value.report # "configured") =>
          doc'.generator = doc.generator]_vars

\* A configure that failed while a configured generator was installed.
C27_Witness ==
  /\ call.op = "configure"
  /\ ret.value.report = "initialisation failed"
  /\ doc.generator = Generator("openai", "en")


(***************************************************************************)
(* sanitize_filename of both generators, and the endpoint file name.       *)
(***************************************************************************)
Digits == <<"0","1","2","3","4","5","6","7","8","9">>

\* text[:100] of advanced_generator.py
MaxFileNameLength == 100

\* .replace(" ", "_").replace("/", "_").replace("-", "_")
ReplaceChar(c) == IF c \in {" ", "/", "-"} THEN "_" ELSE c

\* re.sub(r'[^a-z0-9_]', '', text)
KeptChar(c) == c \in Elems(LowerLetters) \cup Elems(Digits) \cup {"_"}

SanitizeFilename(generator, text) ==
  LET lowered == Lower(text)
      replaced == [i \in 1..Len(lowered) |-> ReplaceChar(lowered[i])]
      kept == SelectSeq(replaced, KeptChar)
  IN  IF generator = "advanced" /\ Len(kept) > MaxFileNameLength
        THEN SubSeq(kept, 1, MaxFileNameLength)
      ELSE kept

\* f"{method.lower()}_{sanitize_filename(path)}"
EndpointFilename(generator, endpoint) ==
  Lower(endpoint.method) \o <<"_">> \o SanitizeFilename(generator, endpoint.path)

\* Paths that differ in a character sanitize_filename replaces or removes.
P_a_dash_b == <<"/","a","-","b">>
P_a_under_b == <<"/","a","_","b">>
P_pets_braced_id == <<"/","p","e","t","s","/","{","i","d","}">>
P_pets_id == <<"/","p","e","t","s","/","i","d">>

(***************************************************************************)
(* process_openapi_file of both generators, from the grouping on: the loop *)
(* over the tags, the tag overview and the endpoint documents in their     *)
(* try/except, and the index written after the loop.                       *)
(*                                                                         *)
(* doc is the generator in use and the loaded document; call.arg is the    *)
(* position of the loops (endpoint 0: the overview of the tag is next);    *)
(* ret.value is the log of what was attempted, with its outcome.  Whether  *)
(* the LLM call and the file write of an attempt succeed is an input of    *)
(* the step.                                                               *)
(***************************************************************************)
PetsOperation == [kind |-> "map", hasTags |-> TRUE, tags |-> <<"pets">>]

\* One or two paths, each with one GET: /a and /b with any operation, and
\* pairs of the paths above with an operation tagged "pets".
ProcessDocs ==
  {[kind |-> "map", has |-> TopKeys, info |-> FullInfo, paths |-> ps] :
     ps \in {<<[path |-> P_a, item |-> <<[key |-> K_get, val |-> o]>>]>> : o \in Operations}
            \cup {<<[path |-> P_a, item |-> <<[key |-> K_get, val |-> o1]>>],
                    [path |-> P_b, item |-> <<[key |-> K_get, val |-> o2]>>]>> :
                    o1 \in Operations, o2 \in Operations}
            \cup {<<[path |-> p1, item |-> <<[key |-> K_get, val |-> PetsOperation]>>],
                    [path |-> p2, item |-> <<[key |-> K_get, val |-> PetsOperation]>>]>> :
                    p1 \in {P_a_dash_b, P_pets_braced_id, P_a},
                    p2 \in {P_a_under_b, P_pets_id}}}

\* The place of a tag in sorted(): str compares by code point.
TagRank(tag) ==
  CASE tag = "Other" -> 1
    [] tag = "pets" -> 2
    [] tag = "untagged" -> 3

RECURSIVE InsertGroup(_, _)
InsertGroup(sorted, group) ==
  IF sorted = <<>> THEN <<group>>
  ELSE IF TagRank(group.key) < TagRank(Head(sorted).key) THEN <<group>> \o sorted
  ELSE <<Head(sorted)>> \o InsertGroup(Tail(sorted), group)

\* [grouped[tag] for tag in sorted(grouped.keys())]
RECURSIVE SortGroups(_)
SortGroups(grouped) ==
  IF grouped = <<>> THEN <<>>
  ELSE InsertGroup(SortGroups(Tail(grouped)), Head(grouped))

\* The groups in the order the tag loop visits them.
GroupsVisited(d) ==
  IF d.generator = "main" THEN GroupByTags(ExtractEndpointsMain(d.spec).value)
  ELSE SortGroups(GroupByTags(ExtractEndpoints(d.spec).value))

ProcessInit ==
  /\ doc \in {[generator |-> g, spec |-> d] : g \in {"main", "advanced"}, d \in ProcessDocs}
  /\ call = [op |-> "none", arg |-> [tag |-> 1, endpoint |-> 0]]
  /\ ret = Returned(<<>>)

\* Load, create the directories, extract and group; the tag loop is next.
ProcessOpenapiFile ==
  /\ call.op = "none"
  /\ call' = [op |-> "process_openapi_file", arg |-> [tag |-> 1, endpoint |-> 0]]
  /\ ret' = Returned(<<>>)
  /\ UNCHANGED doc

\* try: the tag overview / except Exception: print
TagOverview ==
  /\ call.op = "process_openapi_file"
  /\ call.arg.tag <= Len(GroupsVisited(doc))
  /\ call.arg.endpoint = 0
  /\ \E ok \in BOOLEAN :
       ret' = Returned(Append(ret.value,
                [step |-> "tag", tag |-> GroupsVisited(doc)[call.arg.tag].key,
                 key |-> <<>>, ok |-> ok]))
  /\ call' = [call EXCEPT !.arg.endpoint = 1]
  /\ UNCHANGED doc

\* for ep in tag_endpoints: try: the endpoint document / except Exception: print
EndpointDoc ==
  /\ call.op = "process_openapi_file"
  /\ call.arg.tag <= Len(GroupsVisited(doc))
  /\ call.arg.endpoint \in 1..Len(GroupsVisited(doc)[call.arg.tag].val)
  /\ \E ok \in BOOLEAN :
       ret' = Returned(Append(ret.value,
                [step |-> "endpoint", tag |-> GroupsVisited(doc)[call.arg.tag].key,
                 key |-> GroupsVisited(doc)[call.arg.tag].val[call.arg.endpoint].key,
                 file |-> EndpointFilename(doc.generator,
                            GroupsVisited(doc)[call.arg.tag].val[call.arg.endpoint]),
                 ok |-> ok]))
  /\ call' = [call EXCEPT !.arg.endpoint = @ + 1]
  /\ UNCHANGED doc

\* The endpoints of the tag are exhausted: the tag loop goes on.
NextTag ==
  /\ call.op = "process_openapi_file"
  /\ call.arg.tag <= Len(GroupsVisited(doc))
  /\ call.arg.endpoint > Len(GroupsVisited(doc)[call.arg.tag].val)
  /\ call' = [call EXCEPT !.arg = [tag |-> call.arg.tag + 1, endpoint |-> 0]]
  /\ UNCHANGED <<doc, ret>>

\* After the tag loop: create_index_file / _create_index, and return.
CreateIndex ==
  /\ call.op = "process_openapi_file"
  /\ call.arg.tag > Len(GroupsVisited(doc))
  /\ ret' = Returned(Append(ret.value,
              [step |-> "index", tag |-> "", key |-> <<>>, ok |-> TRUE]))
  /\ call' = [call EXCEPT !.op = "processed"]
  /\ UNCHANGED doc

\* The caller goes on; the file may be processed again.
ProcessReturn ==
  /\ call.op = "processed"
  /\ call' = [op |-> "none", arg |-> [tag |-> 1, endpoint |-> 0]]
  /\ ret' = Returned(<<>>)
  /\ UNCHANGED doc

ProcessNext ==
  \/ ProcessOpenapiFile
  \/ TagOverview
  \/ EndpointDoc
  \/ NextTag
  \/ CreateIndex
  \/ ProcessReturn

ProcessSpec == ProcessInit /\ [][ProcessNext]_vars

\* The endpoints the generator in use extracts from the document.
EndpointsOf(d) ==
  IF d.generator = "main" THEN ExtractEndpointsMain(d.spec).value
  ELSE ExtractEndpoints(d.spec).value

\* The places of the log where the step was attempted for the tag and the key.
Attempts(log, step, tag, key) ==
  {i \in 1..Len(log) : log[i].step = step /\ log[i].tag = tag /\ log[i].key = key}

\* C28: when process_openapi_file has ended, whatever attempts failed, the
\* overview of every tag and the document of every (tag, endpoint) pair were
\* attempted exactly once, and the index is the last thing written.
C28_EveryPairAttemptedOnce ==
  call.op = "processed" =>
    LET log == ret.value
        eps == EndpointsOf(doc)
    IN  /\ \A e \in 1..Len(eps) : \A tag \in Elems(eps[e].val.tags) :
             /\ Cardinality(Attempts(log, "endpoint", tag, eps[e].key)) = 1
             /\ Cardinality(Attempts(log, "tag", tag, <<>>)) = 1
        /\ \A i \in 1..Len(log) : log[i].step = "index" <=> i = Len(log)


\* The endpoint documents attempted, as places of the log.
EndpointAttempts(log) == {i \in 1..Len(log) : log[i].step = "endpoint"}

\* C29: the endpoint documents of one processed file that belong to different
\* endpoints are written to different files.
C29_DistinctEndpointsDistinctFiles ==
  call.op = "processed" =>
    \A i, j \in EndpointAttempts(ret.value) :
      ret.value[i].key # ret.value[j].key => ret.value[i].file # ret.value[j].file


(***************************************************************************)
(* Documents for get_response_schemas: /a declares a POST whose            *)
(* "responses" maps up to MaxResponses status codes to a response with or  *)
(* without content, the content one or two media types with or without a   *)
(* schema.                                                                 *)
(***************************************************************************)
MaxResponses == 2

StatusCodes == {"200", "404", "default"}

Schema1 == [kind |-> "map", title |-> "S1"]

Schema2 == [kind |-> "map", title |-> "S2"]

Media(type, value) == [key |-> type, val |-> value]

ResponseContents ==
  {<<>>,
   <<Media("application/json", [kind |-> "map"])>>,
   <<Media("application/json", [kind |-> "map", schema |-> Schema1])>>,
   <<Media("application/json", [kind |-> "map", schema |-> Schema1]),
     Media("application/xml", [kind |-> "map", schema |-> Schema2])>>,
   <<Media("application/json", [kind |-> "map", schema |-> Schema1]),
     Media("application/xml", [kind |-> "map"])>>,
   <<Media("application/json", [kind |-> "map"]),
     Media("application/xml", [kind |-> "map", schema |-> Schema2])>>}

ResponseValues ==
  {[kind |-> "map"]} \cup {[kind |-> "map", content |-> c] : c \in ResponseContents}

RECURSIVE ResponsesOver(_, _)
ResponsesOver(statuses, n) ==
  IF n = 0 THEN {<<>>}
  ELSE UNION {{<<[key |-> st, val |-> r]>> \o rest :
                 r \in ResponseValues, rest \in ResponsesOver(statuses \ {st}, n - 1)} :
              st \in statuses}

ResponseOperations ==
  {[kind |-> "map", hasTags |-> FALSE, tags |-> <<>>]}
    \cup {[kind |-> "map", hasTags |-> FALSE, tags |-> <<>>, responses |-> rs] :
            rs \in UNION {ResponsesOver(StatusCodes, n) : n \in 0..MaxResponses}}

ResponseDocs ==
  {[kind |-> "map", has |-> TopKeys, info |-> FullInfo,
    paths |-> <<[path |-> P_a, item |-> <<[key |-> K_post, val |-> o]>>]>>] :
     o \in ResponseOperations}
    \cup {[kind |-> "map", has |-> {"openapi", "info"}, info |-> FullInfo, paths |-> <<>>]}

ResponseInit ==
  /\ doc \in ResponseDocs
  /\ call = [op |-> "none", arg |-> <<>>]
  /\ ret = Returned(<<>>)

ResponseNext ==
  \/ ResponseSchemas
  \/ Return

ResponseSpec == ResponseInit /\ [][ResponseNext]_vars

\* The content types of a response that carry a schema, as places of its content.
SchemaPlaces(response) ==
  LET content == DictGet(response, "content", <<>>)
  IN  {j \in 1..Len(content) : "schema" \in DOMAIN content[j].val}

\* The schema of the last-declared content type that carries one.
LastDeclaredSchema(response) ==
  response.content[CHOOSE j \in SchemaPlaces(response) :
                     \A k \in SchemaPlaces(response) : k <= j].val.schema

=============================================================================
